---- MODULE Spec2Model ----
(***************************************************************************)
(* Session and verification lifecycle of audiolivros-server.               *)
(*                                                                         *)
(* Time is the local clock Date.now() in milliseconds.  Opaque tokens are  *)
(* numbered in the order generateOpaqueToken draws them; hashToken is an   *)
(* injective tagging of the clear value (sha256 without collisions).       *)
(* Timers (setTimeout / setInterval) fire at or after their due time.      *)
(***************************************************************************)
EXTENDS Integers, Sequences, FiniteSets, TLC

VARIABLES
    now,              \* Date.now(), ms
    ticks,            \* number of clock advances so far
    tokens,           \* table `tokens` of the relational store
    details,          \* table `profile_details` of the relational store
    pendingRequests,  \* DuplicateRequestDetectorService.pendingRequests
    recentRequests,   \* DuplicateRequestDetectorService.recentRequests
    reqs,             \* HTTP requests passing through SessionMiddleware.use
    lastRelease,      \* history: time of the last release call per signature
    nextTok,          \* number of opaque tokens generated so far
    phPending,        \* PhoneVerificationService.pendingByToken
    phIndex,          \* PhoneVerificationService.profileIndex
    codeCache,        \* PhoneVerificationService.codeCache
    emPending,        \* EmailVerificationService.pendingByToken
    emailIndex,       \* EmailVerificationService.emailIndex
    registerIndex,    \* EmailVerificationService.registerIndex
    resetIndex,       \* EmailVerificationService.resetIndex
    tmPending,        \* TermsAcceptanceService.pending
    tmIndex,          \* TermsAcceptanceService.profileIndex
    calls,            \* AuthService calls in progress, one per await chain
    delTimers,        \* AuthService.scheduleTokenDeletion timers
    focus,            \* the part of the system this behaviour exercises
    hist              \* history: what happened to each opaque token so far

clockVars == <<now, ticks>>
dbVars    == <<tokens, details>>
mwVars    == <<pendingRequests, recentRequests, reqs, lastRelease>>
phoneVars == <<phPending, phIndex, codeCache>>
emailVars == <<emPending, emailIndex, registerIndex, resetIndex>>
termsVars == <<tmPending, tmIndex>>
authVars  == <<calls, delTimers>>
histVars  == <<focus, hist>>

vars == <<clockVars, dbVars, mwVars, nextTok, phoneVars, emailVars,
          termsVars, authVars, histVars>>

----------------------------------------------------------------------------
(* Bounds *)

StartNow  == 10000000   \* the clock reading when exploration starts
MaxMwTicks == 4         \* clock advances explored for the middleware
MaxReqs   == 2          \* HTTP requests explored
MaxTok    == 3
MaxStoreTicks == 2      \* clock advances explored for the stores
MaxCalls  == 2          \* AuthService calls in progress at a time
MaxAuthTicks == 1       \* clock advances explored for the session issuer
MaxAuthTok == 2         \* opaque tokens generated by the session issuer
MaxReleases == 3        \* invocations of one release closure
MaxActiveTicks == 1     \* clock advances during which requests are handled
MaxPhoneTok == 2        \* pending tokens of the phone store taken alone

(* Program constants *)

maxAge            == 30000
duplicateMemoryMs == 45000
cleanupFrequency  == 5000
SESSION_TTL_MINUTES   == 60
AUTH_FLOW_TTL_MINUTES == 5
MsPerMinute == 60000
PHONE_PENDING_TTL_MINUTES == 10
PHONE_CODE_TTL_MINUTES    == 5
MAX_VERIFICATION_ATTEMPTS == 5
EMAIL_PENDING_TTL_MINUTES == 10
EMAIL_CODE_TTL_MINUTES    == 5
Email_MAX_VERIFICATION_ATTEMPTS == 5
MIN_RESEND_INTERVAL_MS    == 45000
TERMS_PENDING_TTL_MINUTES == 5
REFRESH_GRACE_MS          == 60000

None    == "none"
NoToken == 0
NoTs    == -1
NoHash  == <<"none">>
NoDetails == [phone |-> None, acceptedTerms |-> FALSE, exists |-> FALSE]

\* finite maps with a growing and shrinking domain
Put(f, k, v) == [x \in DOMAIN f \cup {k} |-> IF x = k THEN v ELSE f[x]]
Del(f, k)    == [x \in DOMAIN f \ {k} |-> f[x]]
Has(f, k)    == k \in DOMAIN f

Users == {"u1", "u2"}

\* the profiles whose pending flows the store explorations follow
Profiles == {"u1"}

----------------------------------------------------------------------------
(* Opaque token codec *)

hashToken(clear) == <<"sha256", clear>>

----------------------------------------------------------------------------
(* Relational store: table `tokens` *)

TokenRow(id, clear, user, perm, exp) ==
    [id |-> id, token_hash |-> hashToken(clear), user_id |-> user,
     permission |-> perm, expires_at |-> exp, revoked_at |-> None]

RowsByHash(h) == {row \in tokens : row.token_hash = h}

----------------------------------------------------------------------------
(* Duplicate-request detector *)

Methods == {"GET", "POST"}
Paths   == {<<"favorites">>, <<"auth", "phone", "verify-code">>}
MwTokens == {NoToken, 1, 2, 3, 4}

generateRequestSignature(m, p, tok) == <<"sha256", m, p, tok>>

\* the requests explored: guarded, safe, auth-flow, with a full session (1),
\* a flow token (2), an old session (3), an unknown token (4) and no token
MwInputs ==
    {<<"POST", <<"favorites">>, 1>>,
     <<"POST", <<"favorites">>, 2>>,
     <<"GET", <<"favorites">>, 1>>,
     <<"POST", <<"auth", "phone", "verify-code">>, 2>>,
     <<"GET", <<"favorites">>, 3>>,
     <<"POST", <<"favorites">>, 4>>,
     <<"POST", <<"favorites">>, NoToken>>}

Sigs == {generateRequestSignature(i[1], i[2], i[3]) : i \in MwInputs}


\* a detector that consults only the recently-completed table
checkDuplicateRequest_NoPending(sig) ==
    LET lastSeen == recentRequests[sig] IN
       /\ lastSeen # NoTs
       /\ lastSeen # 0
       /\ now - lastSeen < duplicateMemoryMs

\* a detector that consults only the pending table
checkDuplicateRequest_NoRecent(sig) == pendingRequests[sig] # NoTs

\* checkDuplicateRequest: pending entry, or a recent one inside the window
checkDuplicateRequest(sig) ==
    \/ pendingRequests[sig] # NoTs
    \/ LET lastSeen == recentRequests[sig] IN
          /\ lastSeen # NoTs
          /\ lastSeen # 0
          /\ now - lastSeen < duplicateMemoryMs

\* registerRequest: pendingRequests.set(signature, {timestamp: Date.now()})
\* a registration that has not reached the table when the step ends
registerRequest_Deferred(sig) == pendingRequests

registerRequest(sig) == [pendingRequests EXCEPT ![sig] = now]

\* the closure registerRequest returns: its effect on the pending table
releasePending(sig) == [pendingRequests EXCEPT ![sig] = NoTs]

\* the closure registerRequest returns: its effect on the recent table
releaseRecent(sig) == [recentRequests EXCEPT ![sig] = now]

\* a sweep that purges the pending table only
cleanupOldRequests_PendingOnly ==
    /\ pendingRequests' =
          [s \in Sigs |->
              IF pendingRequests[s] # NoTs /\ now - pendingRequests[s] > maxAge
              THEN NoTs ELSE pendingRequests[s]]
    /\ UNCHANGED <<recentRequests, reqs, lastRelease>>
    /\ UNCHANGED <<clockVars, dbVars, nextTok, phoneVars, emailVars,
                   termsVars, authVars, histVars>>

cleanupOldRequests ==
    /\ pendingRequests' =
          [s \in Sigs |->
              IF pendingRequests[s] # NoTs /\ now - pendingRequests[s] > maxAge
              THEN NoTs ELSE pendingRequests[s]]
    /\ recentRequests' =
          [s \in Sigs |->
              IF recentRequests[s] # NoTs
                 /\ now - recentRequests[s] > duplicateMemoryMs
              THEN NoTs ELSE recentRequests[s]]
    /\ UNCHANGED <<reqs, lastRelease>>
    /\ UNCHANGED <<clockVars, dbVars, nextTok, phoneVars, emailVars,
                   termsVars, authVars, histVars>>

----------------------------------------------------------------------------
(* Session middleware *)

ReqIds == 1..MaxReqs

\* a method test that takes no method for a safe one
isSafeMethod_Never(m) == FALSE

isSafeMethod(m) == m \in {"GET", "HEAD", "OPTIONS"}

\* a route test that takes every path for an auth-flow route
isAuthFlowRoute_Always(p) == TRUE

isAuthFlowRoute(p) ==
    /\ Len(p) >= 2
    /\ p[1] = "auth"
    /\ p[2] \in {"email", "phone", "terms"}

\* req.session before the middleware assigned it
NoSession == TokenRow(NoToken, NoToken, None, FALSE, NoTs)

IdleReq ==
    [st |-> "idle", method |-> None, path |-> <<>>, token |-> NoToken,
     sig |-> NoHash, guarded |-> FALSE, releases |-> 0, regAt |-> NoTs,
     sinceRelease |-> None, inflightAge |-> None, status |-> 0,
     nextCalled |-> FALSE, session |-> NoSession,
     expiredAtLookup |-> FALSE,
     found |-> {}, checked |-> FALSE]

\* a guarded request that was registered and whose release has not run
InFlight(r) == reqs[r].guarded /\ reqs[r].releases = 0

\* history: how long ago the last release for sig ran, as seen by a newcomer
SinceRelease(sig) ==
    IF lastRelease[sig] = NoTs THEN None
    ELSE IF now - lastRelease[sig] < duplicateMemoryMs THEN "within"
    ELSE "elapsed"

\* history: the youngest in-flight request with this signature
InflightAge(sig) ==
    LET fl == {q \in ReqIds : InFlight(q) /\ reqs[q].sig = sig} IN
    IF fl = {} THEN None
    ELSE IF \E q \in fl : now - reqs[q].regAt <= maxAge THEN "young"
    ELSE "old"

\* use(), lines 36-99: everything before the await on the tokens query
MwEnter(r, m, p, tok) ==
    /\ reqs[r].st = "idle"
    /\ LET sig     == generateRequestSignature(m, p, tok)
           enforce == ~isSafeMethod(m) /\ ~isAuthFlowRoute(p)
           base    == [reqs[r] EXCEPT !.method = m, !.path = p,
                           !.token = tok, !.sig = sig]
       IN
       IF tok = NoToken
       THEN /\ reqs' = [reqs EXCEPT ![r] =
                          [base EXCEPT !.st = "done", !.status = 401]]
            /\ UNCHANGED pendingRequests
       ELSE IF enforce
       THEN LET snap == [base EXCEPT
                           !.checked = TRUE,
                           !.sinceRelease = SinceRelease(sig),
                           !.inflightAge = InflightAge(sig)]
            IN
            IF checkDuplicateRequest(sig)
            THEN /\ reqs' = [reqs EXCEPT ![r] =
                               [snap EXCEPT !.st = "done", !.status = 429]]
                 /\ UNCHANGED pendingRequests
            ELSE /\ reqs' = [reqs EXCEPT ![r] =
                               [snap EXCEPT !.st = "lookup",
                                            !.guarded = TRUE,
                                            !.regAt = now]]
                 /\ pendingRequests' = registerRequest(sig)
       ELSE /\ reqs' = [reqs EXCEPT ![r] = [base EXCEPT !.st = "lookup"]]
            /\ UNCHANGED pendingRequests
    /\ UNCHANGED <<recentRequests, lastRelease>>
    /\ UNCHANGED <<clockVars, dbVars, nextTok, phoneVars, emailVars,
                   termsVars, authVars, histVars>>

\* the detector tables after the cleanup closure of request r has run
Released(r) ==
    IF reqs[r].guarded
    THEN /\ pendingRequests' = releasePending(reqs[r].sig)
         /\ recentRequests' = releaseRecent(reqs[r].sig)
         /\ lastRelease' = [lastRelease EXCEPT ![reqs[r].sig] = now]
    ELSE UNCHANGED <<pendingRequests, recentRequests, lastRelease>>

\* use(), lines 107-151: the tokens query answered, the request judged
\* (db: the query answers with data, answers with an error, or throws)
MwLookup(r, db) ==
    /\ reqs[r].st = "lookup"
    /\ LET rows == RowsByHash(hashToken(reqs[r].token))
           fail(code, data) ==
               \* handleError: cleanup(), then the wrapped res.json
               /\ reqs' = [reqs EXCEPT ![r] =
                             [@ EXCEPT !.st = "done", !.status = code,
                                       !.found = data,
                                       !.releases =
                                          IF reqs[r].guarded
                                          THEN @ + 2 ELSE @]]
               /\ Released(r)
       IN
       IF db = "throws"
       THEN \* catch: the wrapped res.json
            /\ reqs' = [reqs EXCEPT ![r] =
                          [@ EXCEPT !.st = "done", !.status = 401,
                                    !.releases =
                                       IF reqs[r].guarded
                                       THEN @ + 1 ELSE @]]
            /\ Released(r)
       ELSE IF db = "error" \/ rows = {}
       THEN fail(401, {})
       ELSE \E row \in rows :
            IF ~row.permission /\ ~isAuthFlowRoute(reqs[r].path)
            THEN fail(403, {row})
            ELSE /\ reqs' = [reqs EXCEPT ![r] =
                               [@ EXCEPT !.st = "handler",
                                         !.nextCalled = TRUE,
                                         !.found = {row},
                                         !.session = row,
                                         !.expiredAtLookup =
                                             now > row.expires_at]]
                 /\ UNCHANGED <<pendingRequests, recentRequests,
                                lastRelease>>
    /\ UNCHANGED <<clockVars, dbVars, nextTok, phoneVars, emailVars,
                   termsVars, authVars, histVars>>

\* the route handler answers through the wrapped res.send/json/end
Respond(r) ==
    /\ reqs[r].st = "handler"
    /\ reqs' = [reqs EXCEPT ![r] =
                  [@ EXCEPT !.st = "done", !.status = 200,
                            !.releases =
                               IF reqs[r].guarded THEN @ + 1 ELSE @]]
    /\ Released(r)
    /\ UNCHANGED <<clockVars, dbVars, nextTok, phoneVars, emailVars,
                   termsVars, authVars, histVars>>

\* a wrapped res.send/json/end is called on a response that was already
\* answered (the wrappers stay installed on res): the closure runs again
ReleaseAgain(r) ==
    /\ reqs[r].st = "done"
    /\ reqs[r].guarded
    /\ reqs[r].releases >= 1
    /\ reqs[r].releases < MaxReleases
    /\ reqs' = [reqs EXCEPT ![r].releases = @ + 1]
    /\ Released(r)
    /\ UNCHANGED <<clockVars, dbVars, nextTok, phoneVars, emailVars,
                   termsVars, authVars, histVars>>

----------------------------------------------------------------------------
(* Time source *)

TimeSources == {"remote", "local"}

\* addHoursIso(num / den): Date.setHours keeps the integer part of the hours
addHoursIso(num, den) == now + (num \div den) * 60 * MsPerMinute

\* utcTimestampPlusMinutes: "remote" when a time source answered (its clock
\* agrees with the local one), "local" when every source failed
utcTimestampPlusMinutes(minutes, src) ==
    IF src = "remote" THEN now + minutes * MsPerMinute
    ELSE addHoursIso(minutes, 60)

\* isExpired of the phone and email services, and of the terms service
isExpired(iso) == iso = NoTs \/ iso <= now

\* setTimeout is armed only for a positive delay
ArmTimer(due) == IF due - now > 0 THEN due ELSE NoTs

----------------------------------------------------------------------------
(* Relational store: table `profile_details` *)

\* ProfileDetailsService.saveDetails: reads the row, upserts phone, keeps
\* AcceptedTerms
saveDetails(d, profileId, phone) ==
    [d EXCEPT ![profileId] =
        [phone |-> phone,
         acceptedTerms |-> IF @.exists THEN @.acceptedTerms ELSE FALSE,
         exists |-> TRUE]]

\* ProfileDetailsService.markTermsAccepted with the preserved details
markTermsAccepted(d, profileId, preserved) ==
    [d EXCEPT ![profileId] =
        [phone |-> preserved.phone, acceptedTerms |-> TRUE, exists |-> TRUE]]

\* `!details || !details.phone`
NoPhone(d) == ~d.exists \/ d.phone = None

\* ProfileDetailsService.ensurePhoneAvailable
phoneAvailable(phone, profileId) ==
    \A u \in DOMAIN details :
        (details[u].exists /\ details[u].phone = phone) => u = profileId

----------------------------------------------------------------------------
(* History kept for the claims: one entry per opaque token generated *)

NewHist(kind, subject, parent) ==
    [kind |-> kind, subject |-> subject, parent |-> parent,
     superseded |-> FALSE, streak |-> 0, fifth |-> None, consumed |-> 0,
     after |-> {}, expiresAt |-> NoTs, refused |-> FALSE]

Issued == 1..nextTok

\* a token that a later creation replaced, whose wrong-code streak reached
\* the limit, or that was consumed
Dead(e) ==
    \/ e.superseded
    \/ e.streak >= MAX_VERIFICATION_ATTEMPTS
    \/ e.consumed >= 1

\* history after a call presenting token tok returned `result`: a wrong code
\* on a live code extends the streak, any other call on the token ends it;
\* the result of the call that completes the streak and the results of the
\* calls on a dead token are kept
Observe(h, tok, wrong, result) ==
    IF ~Has(h, tok) THEN h
    ELSE LET e == h[tok] IN
         [h EXCEPT ![tok] =
            [e EXCEPT
               !.streak = IF e.streak >= MAX_VERIFICATION_ATTEMPTS
                          THEN e.streak
                          ELSE IF wrong THEN e.streak + 1 ELSE 0,
               !.fifth = IF wrong
                            /\ e.streak = MAX_VERIFICATION_ATTEMPTS - 1
                         THEN result ELSE e.fifth,
               !.after = IF Dead(e) THEN e.after \cup {result}
                         ELSE e.after]]

\* history after a pending token was created for a subject of a store
SupersedeHist(h, kinds, subject, tok, kind) ==
    LET marked == [t \in DOMAIN h |->
                     IF h[t].kind \in kinds /\ h[t].subject = subject
                     THEN [h[t] EXCEPT
                             !.superseded = TRUE,
                             !.streak = IF @ >= MAX_VERIFICATION_ATTEMPTS
                                        THEN @ ELSE 0]
                     ELSE h[t]]
    IN Put(marked, tok, NewHist(kind, subject, NoToken))

\* history after a derived token was consumed: the token and its parent
\* pending token count the consume
ConsumeHist(h, tok) ==
    IF ~Has(h, tok) THEN h
    ELSE [h EXCEPT ![tok].consumed = @ + 1,
                   ![h[tok].parent].consumed = @ + 1]

----------------------------------------------------------------------------
(* Phone verification store *)

Machines == {"m1"}

\* the machines a verifyCode call may come from: one more than the machines
\* that ask for codes
VerifyMachines == Machines \cup {"m2"}
Codes    == {"c1", "c2"}
Phones   == {"p1"}

PhState == [pending |-> phPending, index |-> phIndex, cache |-> codeCache]

PhSet(st) ==
    /\ phPending' = st.pending
    /\ phIndex' = st.index
    /\ codeCache' = st.cache

evictCachesByToken(st, h) ==
    [st EXCEPT !.cache =
        [m \in {x \in DOMAIN st.cache : st.cache[x].tokenHash # h}
            |-> st.cache[m]]]

Phone_clearRecord(st, h) ==
    IF ~Has(st.pending, h) THEN st
    ELSE LET record == st.pending[h] IN
         evictCachesByToken(
            [st EXCEPT
                !.pending = Del(@, h),
                !.index = IF Has(@, record.profileId)
                             /\ @[record.profileId] = h
                          THEN Del(@, record.profileId) ELSE @],
            h)

Phone_createPending(st, profileId, tok, tokenExpiresAt) ==
    LET h == hashToken(tok)
        cleared == IF Has(st.index, profileId)
                   THEN Phone_clearRecord(st, st.index[profileId])
                   ELSE st
        record == [tokenHash |-> h, profileId |-> profileId,
                   tokenExpiresAt |-> tokenExpiresAt, phone |-> None,
                   codeHash |-> NoHash, codeExpiresAt |-> NoTs,
                   attempts |-> 0,
                   tokenTimer |-> ArmTimer(tokenExpiresAt),
                   codeTimer |-> NoTs]
    IN [cleared EXCEPT !.pending = Put(@, h, record),
                       !.index = Put(@, profileId, h)]

\* getRecordByPendingToken: "ok", or the error it throws
Phone_getRecordByPendingToken(st, tok) ==
    IF ~Has(st.pending, hashToken(tok)) THEN "invalidToken"
    ELSE IF isExpired(st.pending[hashToken(tok)].tokenExpiresAt)
    THEN "expiredToken"
    ELSE "ok"

storeCodeForMachine(st, machineCode, h, code, expiresAt) ==
    [st EXCEPT !.cache =
        Put(@, machineCode,
            [code |-> code, expiresAt |-> expiresAt, tokenHash |-> h,
             timeout |-> ArmTimer(expiresAt)])]

\* requestCode: the result and the store it leaves
Phone_requestCode(st, tok, phone, machineCode, code, src) ==
    LET h == hashToken(tok)
        found == Phone_getRecordByPendingToken(st, tok)
    IN
    IF found = "invalidToken" THEN [result |-> found, st |-> st]
    ELSE IF found = "expiredToken"
    THEN [result |-> found, st |-> Phone_clearRecord(st, h)]
    ELSE IF ~phoneAvailable(phone, st.pending[h].profileId)
    THEN [result |-> "phoneTaken", st |-> st]
    ELSE LET codeExpiresAt ==
                 utcTimestampPlusMinutes(PHONE_CODE_TTL_MINUTES, src)
             record == [st.pending[h] EXCEPT
                          !.phone = phone,
                          !.codeHash = hashToken(code),
                          !.codeExpiresAt = codeExpiresAt,
                          !.attempts = 0,
                          !.codeTimer = ArmTimer(codeExpiresAt)]
         IN [result |-> "ok",
             st |-> storeCodeForMachine(
                       [st EXCEPT !.pending = Put(@, h, record)],
                       machineCode, h, code, codeExpiresAt)]

\* handleInvalidAttempt with the limit compared by > instead of >=
Phone_handleInvalidAttempt_Late(st, h) ==
    LET attempts == st.pending[h].attempts + 1 IN
    IF attempts > MAX_VERIFICATION_ATTEMPTS
    THEN [result |-> "maxAttempts", st |-> Phone_clearRecord(st, h)]
    ELSE [result |-> "invalidCode",
          st |-> [st EXCEPT !.pending[h].attempts = attempts]]

\* handleInvalidAttempt: the result and the store it leaves
Phone_handleInvalidAttempt(st, h) ==
    LET attempts == st.pending[h].attempts + 1 IN
    IF attempts >= MAX_VERIFICATION_ATTEMPTS
    THEN [result |-> "maxAttempts", st |-> Phone_clearRecord(st, h)]
    ELSE [result |-> "invalidCode",
          st |-> [st EXCEPT !.pending[h].attempts = attempts]]

\* a machine check whose failure counts as an invalid attempt
machineRejection_Counted(st, h) == Phone_handleInvalidAttempt(st, h)

\* verifyCode when the cache entry of the machine is missing or belongs to
\* another token: the exception is thrown and nothing is written
machineRejection(st, h) == [result |-> "notRequested", st |-> st]

\* verifyCode up to the code comparison: the result and the store it
\* leaves; "match" when the submitted code is the stored one
Phone_verifyCode(st, tok, code, machineCode) ==
    LET h == hashToken(tok)
        found == Phone_getRecordByPendingToken(st, tok)
    IN
    IF found = "invalidToken" THEN [result |-> found, st |-> st]
    ELSE IF found = "expiredToken"
    THEN [result |-> found, st |-> Phone_clearRecord(st, h)]
    ELSE LET record == st.pending[h] IN
    IF ~Has(st.cache, machineCode) \/ st.cache[machineCode].tokenHash # h
    THEN machineRejection(st, h)
    ELSE IF isExpired(st.cache[machineCode].expiresAt)
    THEN [result |-> "codeExpired",
          st |-> Phone_clearRecord(
                    [st EXCEPT !.cache = Del(@, machineCode)], h)]
    ELSE IF record.phone = None
    THEN [result |-> "noPhone", st |-> st]
    ELSE IF record.codeHash = NoHash \/ record.codeExpiresAt = NoTs
    THEN [result |-> "noCode", st |-> st]
    ELSE IF isExpired(record.codeExpiresAt)
    THEN [result |-> "codeExpired",
          st |-> Phone_clearRecord(
                    [st EXCEPT !.cache = Del(@, machineCode)], h)]
    ELSE IF hashToken(code) # record.codeHash
    THEN Phone_handleInvalidAttempt(st, h)
    ELSE [result |-> "match", st |-> st]

\* verifyCode after saveDetails returned: the record and the cache entry go
Phone_verified(st, tok, machineCode) ==
    LET cleared == Phone_clearRecord(st, hashToken(tok)) IN
    [cleared EXCEPT !.cache = Del(@, machineCode)]

\* the claim's case for the attempt limit: a wrong code submitted, from the
\* machine that asked for the code, while token and code are live
PhoneWrongOnLive(tok, code, machineCode) ==
    LET h == hashToken(tok) IN
    /\ Has(phPending, h)
    /\ ~isExpired(phPending[h].tokenExpiresAt)
    /\ Has(codeCache, machineCode)
    /\ codeCache[machineCode].tokenHash = h
    /\ ~isExpired(codeCache[machineCode].expiresAt)
    /\ phPending[h].codeHash # NoHash
    /\ ~isExpired(phPending[h].codeExpiresAt)
    /\ hashToken(code) # phPending[h].codeHash

PhCreatePending(profileId, src) ==
    /\ nextTok < MaxTok
    /\ LET tok == nextTok + 1
           exp == utcTimestampPlusMinutes(PHONE_PENDING_TTL_MINUTES, src)
       IN /\ PhSet(Phone_createPending(PhState, profileId, tok, exp))
          /\ nextTok' = tok
          /\ hist' = SupersedeHist(hist, {"phone"}, profileId, tok, "phone")
    /\ UNCHANGED <<clockVars, dbVars, mwVars, emailVars, termsVars,
                   authVars, focus>>

PhRequestCode(tok, phone, machineCode, code, src) ==
    /\ LET out == Phone_requestCode(PhState, tok, phone, machineCode,
                                    code, src)
       IN /\ PhSet(out.st)
          /\ hist' = Observe(hist, tok, FALSE, out.result)
    /\ UNCHANGED <<clockVars, dbVars, mwVars, nextTok, emailVars,
                   termsVars, authVars, focus>>

PhVerifyCode(tok, code, machineCode) ==
    /\ LET out == Phone_verifyCode(PhState, tok, code, machineCode)
           h == hashToken(tok)
       IN /\ IF out.result = "match"
             THEN /\ details' = saveDetails(details, phPending[h].profileId,
                                            phPending[h].phone)
                  /\ PhSet(Phone_verified(out.st, tok, machineCode))
             ELSE /\ PhSet(out.st)
                  /\ UNCHANGED details
          /\ hist' = LET seen == Observe(hist, tok,
                                         PhoneWrongOnLive(tok, code,
                                                          machineCode),
                                         out.result)
                     IN IF out.result = "notRequested"
                           /\ phPending[h].codeHash = hashToken(code)
                        THEN [seen EXCEPT ![tok].refused = TRUE]
                        ELSE seen
    /\ UNCHANGED <<clockVars, tokens, mwVars, nextTok, emailVars,
                   termsVars, authVars, focus>>

\* record.tokenTimer and record.codeTimer: both clear the whole record
PhRecordTimer ==
    /\ \E h \in DOMAIN phPending :
          /\ \/ (phPending[h].tokenTimer # NoTs
                    /\ phPending[h].tokenTimer <= now)
             \/ (phPending[h].codeTimer # NoTs
                    /\ phPending[h].codeTimer <= now)
          /\ PhSet(Phone_clearRecord(PhState, h))
    /\ UNCHANGED <<clockVars, dbVars, mwVars, nextTok, emailVars,
                   termsVars, authVars, histVars>>

\* the timeout of a code cache entry: deletes the machine's entry if it
\* still belongs to the same token
PhCacheTimer ==
    /\ \E m \in DOMAIN codeCache :
          /\ codeCache[m].timeout # NoTs
          /\ codeCache[m].timeout <= now
          /\ codeCache' = Del(codeCache, m)
    /\ UNCHANGED <<phPending, phIndex>>
    /\ UNCHANGED <<clockVars, dbVars, mwVars, nextTok, emailVars,
                   termsVars, authVars, histVars>>

----------------------------------------------------------------------------
(* Email verification store *)

Emails == {"e1"}

EmState ==
    [pending |-> emPending, emailIndex |-> emailIndex,
     registerIndex |-> registerIndex, resetIndex |-> resetIndex]

EmSet(st) ==
    /\ emPending' = st.pending
    /\ emailIndex' = st.emailIndex
    /\ registerIndex' = st.registerIndex
    /\ resetIndex' = st.resetIndex

Email_clearRecord(st, h) ==
    IF ~Has(st.pending, h) THEN st
    ELSE LET record == st.pending[h] IN
         [st EXCEPT
            !.pending = Del(@, h),
            !.emailIndex = IF Has(@, record.email) /\ @[record.email] = h
                           THEN Del(@, record.email) ELSE @,
            !.registerIndex = IF record.registerTokenHash # NoHash
                              THEN Del(@, record.registerTokenHash) ELSE @,
            !.resetIndex = IF record.resetTokenHash # NoHash
                           THEN Del(@, record.resetTokenHash) ELSE @]

\* generateAndStoreCode: the record with a fresh code, on the local clock
generateAndStoreCode(record, code) ==
    [record EXCEPT
        !.codeHash = hashToken(code),
        !.codeExpiresAt = now + EMAIL_CODE_TTL_MINUTES * MsPerMinute,
        !.attempts = 0,
        !.lastCodeSentAt = now,
        !.codeTimer = ArmTimer(now + EMAIL_CODE_TTL_MINUTES * MsPerMinute)]

\* the record literal of request and requestReset
EmailRecord(h, email, tokenExpiresAt) ==
    [tokenHash |-> h, email |-> email, tokenExpiresAt |-> tokenExpiresAt,
     status |-> "pending", codeHash |-> NoHash, codeExpiresAt |-> NoTs,
     attempts |-> 0, lastCodeSentAt |-> NoTs,
     registerTokenHash |-> NoHash, registerTokenExpiresAt |-> NoTs,
     resetTokenHash |-> NoHash, resetTokenExpiresAt |-> NoTs,
     tokenTimer |-> ArmTimer(tokenExpiresAt), codeTimer |-> NoTs,
     registerTimer |-> NoTs, resetTimer |-> NoTs]

\* a request that replaces the record of the email whatever its status
Email_request_Always(st, email, tok, tokenExpiresAt, code) ==
    LET h == hashToken(tok)
        cleared == IF Has(st.emailIndex, email)
                   THEN Email_clearRecord(st, st.emailIndex[email])
                   ELSE st
        record == generateAndStoreCode(
                     EmailRecord(h, email, tokenExpiresAt), code)
    IN [result |-> "ok",
        st |-> [cleared EXCEPT !.pending = Put(@, h, record),
                               !.emailIndex = Put(@, email, h)]]

\* request: the result and the store it leaves
Email_request(st, email, tok, tokenExpiresAt, code) ==
    LET h == hashToken(tok)
        indexed == Has(st.emailIndex, email)
        existing == st.pending[st.emailIndex[email]]
    IN
    IF /\ indexed
       /\ Has(st.pending, st.emailIndex[email])
       /\ existing.status = "verified"
       /\ existing.registerTokenHash # NoHash
       /\ existing.registerTokenExpiresAt # NoTs
       /\ ~isExpired(existing.registerTokenExpiresAt)
    THEN [result |-> "alreadyVerified", st |-> st]
    ELSE LET cleared == IF indexed
                        THEN Email_clearRecord(st, st.emailIndex[email])
                        ELSE st
             record == generateAndStoreCode(
                          EmailRecord(h, email, tokenExpiresAt), code)
         IN [result |-> "ok",
             st |-> [cleared EXCEPT !.pending = Put(@, h, record),
                                    !.emailIndex = Put(@, email, h)]]

\* requestReset: the result and the store it leaves
Email_requestReset(st, email, tok, tokenExpiresAt, code) ==
    LET h == hashToken(tok)
        cleared == IF Has(st.emailIndex, email)
                      /\ Has(st.pending, st.emailIndex[email])
                   THEN Email_clearRecord(st, st.emailIndex[email])
                   ELSE st
        record == generateAndStoreCode(
                     EmailRecord(h, email, tokenExpiresAt), code)
    IN [result |-> "ok",
        st |-> [cleared EXCEPT !.pending = Put(@, h, record),
                               !.emailIndex = Put(@, email, h)]]

\* request and requestReset up to their await on the time source: the
\* refusal, or the store with the existing record of the email cleared
Email_clearExisting(st, email, kind) ==
    LET indexed == Has(st.emailIndex, email)
        known == indexed /\ Has(st.pending, st.emailIndex[email])
        existing == st.pending[st.emailIndex[email]]
    IN
    IF /\ kind = "emailRequest"
       /\ known
       /\ existing.status = "verified"
       /\ existing.registerTokenHash # NoHash
       /\ existing.registerTokenExpiresAt # NoTs
       /\ ~isExpired(existing.registerTokenExpiresAt)
    THEN [result |-> "alreadyVerified", st |-> st]
    ELSE [result |-> "ok",
          st |-> IF known THEN Email_clearRecord(st, st.emailIndex[email])
                 ELSE st]

\* request and requestReset once the time source answered: the record is
\* stored and indexed, a code generated
Email_storeRecord(st, email, tok, tokenExpiresAt, code) ==
    LET h == hashToken(tok) IN
    [st EXCEPT
        !.pending = Put(@, h, generateAndStoreCode(
                                 EmailRecord(h, email, tokenExpiresAt),
                                 code)),
        !.emailIndex = Put(@, email, h)]

\* getRecordByToken: "ok", or the error it throws, and the store it leaves
Email_getRecordByToken(st, tok) ==
    IF ~Has(st.pending, hashToken(tok))
    THEN [result |-> "invalidToken", st |-> st]
    ELSE IF isExpired(st.pending[hashToken(tok)].tokenExpiresAt)
    THEN [result |-> "expiredToken",
          st |-> Email_clearRecord(st, hashToken(tok))]
    ELSE [result |-> "ok", st |-> st]

\* resendCode: the result and the store it leaves
Email_resendCode(st, tok, code) ==
    LET h == hashToken(tok)
        found == Email_getRecordByToken(st, tok)
    IN
    IF found.result # "ok" THEN found
    ELSE LET record == st.pending[h] IN
    IF record.status # "pending"
    THEN [result |-> "alreadyDone", st |-> st]
    ELSE IF record.lastCodeSentAt # NoTs
            /\ now - record.lastCodeSentAt < MIN_RESEND_INTERVAL_MS
    THEN [result |-> "tooSoon", st |-> st]
    ELSE [result |-> "ok",
          st |-> [st EXCEPT !.pending[h] = generateAndStoreCode(@, code)]]

\* handleInvalidAttempt that also forgets the code
Email_handleInvalidAttempt_DropCode(st, h) ==
    LET attempts == st.pending[h].attempts + 1 IN
    IF attempts >= Email_MAX_VERIFICATION_ATTEMPTS
    THEN [result |-> "maxAttempts", st |-> Email_clearRecord(st, h)]
    ELSE [result |-> "invalidCode",
          st |-> [st EXCEPT !.pending[h].attempts = attempts,
                            !.pending[h].codeHash = NoHash]]

\* handleInvalidAttempt that gives up one wrong code later
Email_handleInvalidAttempt_Late(st, h) ==
    LET attempts == st.pending[h].attempts + 1 IN
    IF attempts > Email_MAX_VERIFICATION_ATTEMPTS
    THEN [result |-> "maxAttempts", st |-> Email_clearRecord(st, h)]
    ELSE [result |-> "invalidCode",
          st |-> [st EXCEPT !.pending[h].attempts = attempts]]

\* handleInvalidAttempt, and the 'invalid code' error thrown after it
Email_handleInvalidAttempt(st, h) ==
    LET attempts == st.pending[h].attempts + 1 IN
    IF attempts >= Email_MAX_VERIFICATION_ATTEMPTS
    THEN [result |-> "maxAttempts", st |-> Email_clearRecord(st, h)]
    ELSE [result |-> "invalidCode",
          st |-> [st EXCEPT !.pending[h].attempts = attempts]]

\* the code checks shared by verifyCode and verifyResetCode; "match" when
\* the submitted code is the stored one
Email_checkCode(st, h, code, newCode) ==
    LET record == st.pending[h] IN
    IF record.codeHash = NoHash \/ record.codeExpiresAt = NoTs
    THEN [result |-> "noCode", st |-> st]
    ELSE IF isExpired(record.codeExpiresAt)
    THEN [result |-> "codeExpired",
          st |-> [st EXCEPT
                    !.pending[h] = generateAndStoreCode(@, newCode)]]
    ELSE IF hashToken(code) # record.codeHash
    THEN Email_handleInvalidAttempt(st, h)
    ELSE [result |-> "match", st |-> st]

\* verifyCode: the result and the store it leaves; dtok is the register
\* token it generates
Email_verifyCode(st, tok, code, newCode, dtok, registerExpiresAt) ==
    LET h == hashToken(tok)
        found == Email_getRecordByToken(st, tok)
    IN
    IF found.result # "ok" THEN found
    ELSE IF st.pending[h].status # "pending"
    THEN [result |-> "alreadyDone", st |-> st]
    ELSE LET checked == Email_checkCode(st, h, code, newCode) IN
    IF checked.result # "match" THEN checked
    ELSE [result |-> "verified",
          st |-> [st EXCEPT
                    !.pending[h] =
                        [@ EXCEPT
                            !.status = "verified",
                            !.codeHash = NoHash,
                            !.codeExpiresAt = NoTs,
                            !.codeTimer = NoTs,
                            !.registerTokenHash = hashToken(dtok),
                            !.registerTokenExpiresAt = registerExpiresAt,
                            !.registerTimer = ArmTimer(registerExpiresAt)],
                    !.registerIndex = Put(@, hashToken(dtok), h)]]

\* the earlier of two armed timers
EarlierTimer(a, b) ==
    IF a = NoTs THEN b
    ELSE IF b = NoTs THEN a
    ELSE IF a < b THEN a ELSE b

\* verifyResetCode: the result and the store it leaves; dtok is the reset
\* token it generates.  record.resetTimer is overwritten without
\* clearTimeout, so a timer armed for an earlier reset token of the record
\* stays armed: the field keeps the earliest armed one
Email_verifyResetCode(st, tok, code, newCode, dtok, resetExpiresAt) ==
    LET h == hashToken(tok)
        found == Email_getRecordByToken(st, tok)
    IN
    IF found.result # "ok" THEN found
    ELSE LET checked == Email_checkCode(st, h, code, newCode) IN
    IF checked.result # "match" THEN checked
    ELSE [result |-> "verified",
          st |-> [st EXCEPT
                    !.pending[h] =
                        [@ EXCEPT
                            !.codeHash = NoHash,
                            !.codeExpiresAt = NoTs,
                            !.codeTimer = NoTs,
                            !.resetTokenHash = hashToken(dtok),
                            !.resetTokenExpiresAt = resetExpiresAt,
                            !.resetTimer =
                                EarlierTimer(@, ArmTimer(resetExpiresAt))],
                    !.resetIndex = Put(@, hashToken(dtok), h)]]

\* consumeRegisterToken: the result and the store it leaves
Email_consumeRegisterToken(st, dtok) ==
    LET registerHash == hashToken(dtok) IN
    IF ~Has(st.registerIndex, registerHash)
    THEN [result |-> "invalidToken", st |-> st]
    ELSE LET h == st.registerIndex[registerHash] IN
    IF ~Has(st.pending, h)
    THEN [result |-> "invalidToken",
          st |-> [st EXCEPT !.registerIndex = Del(@, registerHash)]]
    ELSE IF st.pending[h].registerTokenExpiresAt = NoTs
            \/ isExpired(st.pending[h].registerTokenExpiresAt)
    THEN [result |-> "expiredToken", st |-> Email_clearRecord(st, h)]
    ELSE [result |-> "consumed", st |-> Email_clearRecord(st, h)]

\* consumeResetToken: the result and the store it leaves
Email_consumeResetToken(st, dtok) ==
    LET resetHash == hashToken(dtok) IN
    IF ~Has(st.resetIndex, resetHash)
    THEN [result |-> "invalidToken", st |-> st]
    ELSE LET h == st.resetIndex[resetHash] IN
    IF ~Has(st.pending, h)
    THEN [result |-> "invalidToken",
          st |-> [st EXCEPT !.resetIndex = Del(@, resetHash)]]
    ELSE IF st.pending[h].resetTokenExpiresAt = NoTs
            \/ isExpired(st.pending[h].resetTokenExpiresAt)
    THEN [result |-> "expiredToken", st |-> Email_clearRecord(st, h)]
    ELSE [result |-> "consumed", st |-> Email_clearRecord(st, h)]

\* the claim's case for the attempt limit: a wrong code submitted while
\* token and code are live (and, for verifyCode, the record is pending)
EmailWrongOnLive(tok, code, needsPending) ==
    LET h == hashToken(tok) IN
    /\ Has(emPending, h)
    /\ ~isExpired(emPending[h].tokenExpiresAt)
    /\ needsPending => emPending[h].status = "pending"
    /\ emPending[h].codeHash # NoHash
    /\ emPending[h].codeExpiresAt # NoTs
    /\ ~isExpired(emPending[h].codeExpiresAt)
    /\ hashToken(code) # emPending[h].codeHash

\* the case of a verify call after the code's expiry: the pending token is
\* live (and, for verifyCode, the record is pending), a code was sent for it
\* EMAIL_CODE_TTL_MINUTES or more ago and no later one, and the code was not
\* used to derive a token
EmailCodeExpired(tok, needsPending) ==
    LET h == hashToken(tok) IN
    /\ Has(emPending, h)
    /\ ~isExpired(emPending[h].tokenExpiresAt)
    /\ needsPending => emPending[h].status = "pending"
    /\ emPending[h].registerTokenHash = NoHash
    /\ emPending[h].resetTokenHash = NoHash
    /\ emPending[h].lastCodeSentAt # NoTs
    /\ now - emPending[h].lastCodeSentAt
          >= EMAIL_CODE_TTL_MINUTES * MsPerMinute

EmailKinds == {"emailRequest", "emailReset"}

EmRequest(email, src, code) ==
    /\ nextTok < MaxTok
    /\ LET tok == nextTok + 1
           exp == utcTimestampPlusMinutes(EMAIL_PENDING_TTL_MINUTES, src)
           out == Email_request(EmState, email, tok, exp, code)
       IN /\ EmSet(out.st)
          /\ IF out.result = "ok"
             THEN /\ nextTok' = tok
                  /\ hist' = SupersedeHist(hist, EmailKinds, email, tok,
                                           "emailRequest")
             ELSE UNCHANGED <<nextTok, hist>>
    /\ UNCHANGED <<clockVars, dbVars, mwVars, phoneVars, termsVars,
                   authVars, focus>>

EmRequestReset(email, src, code) ==
    /\ nextTok < MaxTok
    /\ LET tok == nextTok + 1
           exp == utcTimestampPlusMinutes(EMAIL_PENDING_TTL_MINUTES, src)
           out == Email_requestReset(EmState, email, tok, exp, code)
       IN /\ EmSet(out.st)
          /\ nextTok' = tok
          /\ hist' = SupersedeHist(hist, EmailKinds, email, tok,
                                   "emailReset")
    /\ UNCHANGED <<clockVars, dbVars, mwVars, phoneVars, termsVars,
                   authVars, focus>>

EmResendCode(tok, code) ==
    /\ LET out == Email_resendCode(EmState, tok, code)
       IN /\ EmSet(out.st)
          /\ hist' = Observe(hist, tok, FALSE, out.result)
    /\ UNCHANGED <<clockVars, dbVars, mwVars, nextTok, phoneVars,
                   termsVars, authVars, focus>>

EmVerifyCode(tok, code, newCode, src) ==
    /\ LET dtok == nextTok + 1
           exp == utcTimestampPlusMinutes(EMAIL_PENDING_TTL_MINUTES, src)
           out == Email_verifyCode(EmState, tok, code, newCode, dtok, exp)
           seen == Observe(hist, tok, EmailWrongOnLive(tok, code, TRUE),
                           out.result)
       IN /\ out.result = "verified" => nextTok < MaxTok
          /\ EmSet(out.st)
          /\ IF out.result = "verified"
             THEN /\ nextTok' = dtok
                  /\ hist' = Put(seen, dtok,
                                 [NewHist("register",
                                          emPending[hashToken(tok)].email,
                                          tok) EXCEPT !.expiresAt = exp])
             ELSE /\ hist' = seen
                  /\ UNCHANGED nextTok
    /\ UNCHANGED <<clockVars, dbVars, mwVars, phoneVars, termsVars,
                   authVars, focus>>

EmVerifyResetCode(tok, code, newCode, src) ==
    /\ LET dtok == nextTok + 1
           exp == utcTimestampPlusMinutes(EMAIL_PENDING_TTL_MINUTES, src)
           out == Email_verifyResetCode(EmState, tok, code, newCode, dtok,
                                        exp)
           seen == Observe(hist, tok, EmailWrongOnLive(tok, code, FALSE),
                           out.result)
       IN /\ out.result = "verified" => nextTok < MaxTok
          /\ EmSet(out.st)
          /\ IF out.result = "verified"
             THEN /\ nextTok' = dtok
                  /\ hist' = Put(seen, dtok,
                                 [NewHist("reset",
                                          emPending[hashToken(tok)].email,
                                          tok) EXCEPT !.expiresAt = exp])
             ELSE /\ hist' = seen
                  /\ UNCHANGED nextTok
    /\ UNCHANGED <<clockVars, dbVars, mwVars, phoneVars, termsVars,
                   authVars, focus>>

EmConsumeRegisterToken(dtok) ==
    /\ LET out == Email_consumeRegisterToken(EmState, dtok)
           seen == Observe(hist, dtok, FALSE, out.result)
       IN /\ EmSet(out.st)
          /\ hist' = IF out.result = "consumed"
                     THEN ConsumeHist(seen, dtok) ELSE seen
    /\ UNCHANGED <<clockVars, dbVars, mwVars, nextTok, phoneVars,
                   termsVars, authVars, focus>>

EmConsumeResetToken(dtok) ==
    /\ LET out == Email_consumeResetToken(EmState, dtok)
           seen == Observe(hist, dtok, FALSE, out.result)
       IN /\ EmSet(out.st)
          /\ hist' = IF out.result = "consumed"
                     THEN ConsumeHist(seen, dtok) ELSE seen
    /\ UNCHANGED <<clockVars, dbVars, mwVars, nextTok, phoneVars,
                   termsVars, authVars, focus>>

\* record.tokenTimer, record.registerTimer and record.resetTimer: each
\* clears the whole record
EmRecordTimer ==
    /\ \E h \in DOMAIN emPending :
          /\ \E due \in {emPending[h].tokenTimer, emPending[h].registerTimer,
                         emPending[h].resetTimer} :
                due # NoTs /\ due <= now
          /\ EmSet(Email_clearRecord(EmState, h))
    /\ UNCHANGED <<clockVars, dbVars, mwVars, nextTok, phoneVars,
                   termsVars, authVars, histVars>>

\* record.codeTimer: forgets the code, keeps the record
EmCodeTimer ==
    /\ \E h \in DOMAIN emPending :
          /\ emPending[h].codeTimer # NoTs
          /\ emPending[h].codeTimer <= now
          /\ emPending' = [emPending EXCEPT
                              ![h] = [@ EXCEPT !.codeHash = NoHash,
                                               !.codeExpiresAt = NoTs,
                                               !.codeTimer = NoTs]]
    /\ UNCHANGED <<emailIndex, registerIndex, resetIndex>>
    /\ UNCHANGED <<clockVars, dbVars, mwVars, nextTok, phoneVars,
                   termsVars, authVars, histVars>>

----------------------------------------------------------------------------
(* Terms acceptance store *)

TmState == [pending |-> tmPending, index |-> tmIndex]

TmSet(st) ==
    /\ tmPending' = st.pending
    /\ tmIndex' = st.index

Terms_clearRecord(st, h) ==
    [st EXCEPT
        !.index = IF Has(st.pending, h)
                     /\ Has(@, st.pending[h].profileId)
                     /\ @[st.pending[h].profileId] = h
                  THEN Del(@, st.pending[h].profileId) ELSE @,
        !.pending = Del(@, h)]

\* createPending that leaves the profile's existing record in place
Terms_createPending_Keep(st, profileId, d, tok, expiresAt) ==
    IF NoPhone(d) THEN [result |-> "phoneRequired", st |-> st]
    ELSE LET h == hashToken(tok)
             record == [tokenHash |-> h, profileId |-> profileId,
                        expiresAt |-> expiresAt, details |-> d,
                        timer |-> ArmTimer(expiresAt)]
         IN [result |-> "ok",
             st |-> [st EXCEPT !.pending = Put(@, h, record),
                               !.index = Put(@, profileId, h)]]

\* createPending: the result and the store it leaves
Terms_createPending(st, profileId, d, tok, expiresAt) ==
    IF NoPhone(d) THEN [result |-> "phoneRequired", st |-> st]
    ELSE LET h == hashToken(tok)
             record == [tokenHash |-> h, profileId |-> profileId,
                        expiresAt |-> expiresAt, details |-> d,
                        timer |-> ArmTimer(expiresAt)]
             cleared == IF Has(st.index, profileId)
                        THEN Terms_clearRecord(st, st.index[profileId])
                        ELSE st
         IN [result |-> "ok",
             st |-> [cleared EXCEPT !.pending = Put(@, h, record),
                                    !.index = Put(@, profileId, h)]]

\* acceptTerms up to markTermsAccepted: "ok", or the error it throws, and
\* the store it leaves
Terms_acceptTerms(st, tok) ==
    LET h == hashToken(tok) IN
    IF ~Has(st.pending, h) THEN [result |-> "invalidToken", st |-> st]
    ELSE IF isExpired(st.pending[h].expiresAt)
    THEN [result |-> "expiredToken", st |-> Terms_clearRecord(st, h)]
    ELSE [result |-> "ok", st |-> st]

TmCreatePending(profileId, d, src) ==
    /\ LET tok == nextTok + 1
           exp == utcTimestampPlusMinutes(TERMS_PENDING_TTL_MINUTES, src)
           out == Terms_createPending(TmState, profileId, d, tok, exp)
       IN /\ out.result = "ok" => nextTok < MaxTok
          /\ TmSet(out.st)
          /\ IF out.result = "ok"
             THEN /\ nextTok' = tok
                  /\ hist' = SupersedeHist(hist, {"terms"}, profileId, tok,
                                           "terms")
             ELSE UNCHANGED <<nextTok, hist>>
    /\ UNCHANGED <<clockVars, dbVars, mwVars, phoneVars, emailVars,
                   authVars, focus>>

\* acceptTerms: the checks, markTermsAccepted, then clearRecord
TmAcceptTerms(tok) ==
    /\ LET h == hashToken(tok)
           out == Terms_acceptTerms(TmState, tok)
       IN /\ IF out.result = "ok"
             THEN /\ details' = markTermsAccepted(
                                   details, tmPending[h].profileId,
                                   tmPending[h].details)
                  /\ TmSet(Terms_clearRecord(out.st, h))
             ELSE /\ TmSet(out.st)
                  /\ UNCHANGED details
          /\ hist' = Observe(hist, tok, FALSE,
                             IF out.result = "ok" THEN "accepted"
                             ELSE out.result)
    /\ UNCHANGED <<clockVars, tokens, mwVars, nextTok, phoneVars,
                   emailVars, authVars, focus>>

\* record.timer: clears the record
TmTimer ==
    /\ \E h \in DOMAIN tmPending :
          /\ tmPending[h].timer # NoTs
          /\ tmPending[h].timer <= now
          /\ TmSet(Terms_clearRecord(TmState, h))
    /\ UNCHANGED <<clockVars, dbVars, mwVars, nextTok, phoneVars,
                   emailVars, authVars, histVars>>

----------------------------------------------------------------------------
(* Session issuer: AuthService.  A call advances one segment at a time: a  *)
(* segment begins when the awaited store operation answers (its effect on  *)
(* the table happens then) and runs to the next await.                     *)

CallIds == 1..MaxCalls

NoResult == [kind |-> None, token |-> NoToken]

IdleCall ==
    [op |-> None, pc |-> "idle", user |-> None, tok |-> NoToken,
     phone |-> None, details |-> NoDetails, rowId |-> NoToken,
     fromPerm |-> TRUE, newTok |-> NoToken, perm |-> FALSE, exp |-> NoTs,
     ret |-> None, result |-> NoResult, stored |-> None,
     exception |-> None]

Running(c) == calls[c].pc \notin {"idle", "done"}

\* the call returns or throws: its result stays until the slot is reused
Finish(call, kind, token) ==
    [IdleCall EXCEPT !.op = call.op, !.pc = "done", !.user = call.user,
                     !.details = call.details, !.stored = call.stored,
                     !.result = [kind |-> kind, token |-> token]]

\* a row of table `tokens` as persistTokenRecord inserts it; by, basis and
\* fromPerm are history: the operation that inserted the row, the profile
\* details it had read, and the permission of the row it was presented
AuthRow(call) ==
    [id |-> call.newTok, token_hash |-> hashToken(call.newTok),
     user_id |-> call.user, permission |-> call.perm,
     expires_at |-> call.exp, revoked_at |-> None,
     by |-> call.op, basis |-> call.details, fromPerm |-> call.fromPerm]

\* ProfileDetailsService.getDetails
getDetails(d, profileId) == d[profileId]

\* a terms gate that lets every profile through
TermsAccepted_Always(d) == TRUE

\* maybeRequireTermsAcceptance: `details.acceptedTerms`
TermsAccepted(d) == d.acceptedTerms

\* issueSession with the details d, up to its first await on a store:
\* fresh is the token generateOpaqueToken draws
issueSession(call, d, fresh, src) ==
    IF NoPhone(d) THEN Finish([call EXCEPT !.details = d], "error", NoToken)
    ELSE IF ~TermsAccepted(d)
    THEN [call EXCEPT !.pc = "termsTs", !.details = d, !.newTok = fresh,
                      !.perm = FALSE, !.ret = "requiresTerms"]
    ELSE [call EXCEPT !.pc = "deleteByUser", !.details = d,
                      !.newTok = fresh, !.perm = TRUE,
                      !.exp = utcTimestampPlusMinutes(SESSION_TTL_MINUTES,
                                                      src),
                      !.ret = "session"]

\* a login tail with no phone gate: a full session whatever the details
loginTail_NoPhoneGate(call, d, fresh, src) ==
    [call EXCEPT !.pc = "deleteByUser", !.details = d,
                 !.newTok = fresh, !.perm = TRUE,
                 !.exp = utcTimestampPlusMinutes(SESSION_TTL_MINUTES, src),
                 !.ret = "session"]

\* the tail shared by loginWithEmail, externalProviderLogin and
\* completePasswordReset once getDetails answered
loginTail(call, d, fresh, src) ==
    IF NoPhone(d)
    THEN [call EXCEPT !.pc = "phoneTs", !.details = d, !.newTok = fresh,
                      !.perm = FALSE, !.ret = "requiresPhone"]
    ELSE issueSession(call, d, fresh, src)

\* refreshSessionToken once getDetails answered
refreshTail(call, d, fresh, src) ==
    IF NoPhone(d) THEN Finish([call EXCEPT !.details = d], "error", NoToken)
    ELSE IF ~TermsAccepted(d)
    THEN [call EXCEPT !.pc = "termsTs", !.details = d, !.newTok = fresh,
                      !.perm = FALSE, !.ret = "requiresTerms"]
    ELSE [call EXCEPT !.pc = "deleteByHash", !.details = d,
                      !.newTok = fresh, !.perm = TRUE,
                      !.exp = utcTimestampPlusMinutes(SESSION_TTL_MINUTES,
                                                      src),
                      !.ret = "session"]

\* a segment that ends in `next`: the token it drew, if any, is counted
Advance(c, next) ==
    /\ next.newTok = nextTok + 1 => nextTok < MaxAuthTok
    /\ calls' = [calls EXCEPT ![c] = next]
    /\ nextTok' = IF next.newTok = nextTok + 1 THEN nextTok + 1 ELSE nextTok
    /\ UNCHANGED hist

LoginPaths ==
    {"loginWithEmail", "externalProviderLogin", "completePasswordReset"}

\* a login whose identity checks passed: getDetails is awaited
StartLogin(c, u, path) ==
    /\ ~Running(c)
    /\ calls' = [calls EXCEPT ![c] = [IdleCall EXCEPT !.op = "login",
                                                      !.pc = "getDetails",
                                                      !.user = u]]
    /\ UNCHANGED <<clockVars, dbVars, mwVars, nextTok, phoneVars, emailVars,
                   termsVars, delTimers, histVars>>

\* table `profiles`: the provider each profile is bound to
ProfileProvider == [u \in Profiles |-> "google"]

ExternalProviders == {"google", "apple"}

\* externalProviderLogin up to the provider cross-check: a profile bound to
\* another provider ends the call, otherwise getDetails is awaited
StartExternalLogin(c, u, provider) ==
    /\ ~Running(c)
    /\ calls' =
          [calls EXCEPT ![c] =
              IF ProfileProvider[u] # provider
              THEN [Finish([IdleCall EXCEPT !.op = "externalLogin",
                                            !.user = u],
                           "error", NoToken)
                      EXCEPT !.exception = "UnauthorizedException"]
              ELSE [IdleCall EXCEPT !.op = "login", !.pc = "getDetails",
                                    !.user = u]]
    /\ UNCHANGED <<clockVars, dbVars, mwVars, nextTok, phoneVars, emailVars,
                   termsVars, delTimers, histVars>>

LoginGetDetails(c, src) ==
    /\ calls[c].pc = "getDetails"
    /\ Advance(c, loginTail(calls[c], getDetails(details, calls[c].user),
                            nextTok + 1, src))
    /\ UNCHANGED <<clockVars, dbVars, mwVars, phoneVars, emailVars,
                   termsVars, delTimers, focus>>

\* phoneVerification.createPending after its timestamp answered, then
\* registerAuthFlowToken up to deleteTokensByUser
PhoneTs(c, src) ==
    /\ calls[c].pc = "phoneTs"
    /\ LET exp == utcTimestampPlusMinutes(PHONE_PENDING_TTL_MINUTES, src)
       IN /\ PhSet(Phone_createPending(PhState, calls[c].user,
                                       calls[c].newTok, exp))
          /\ calls' = [calls EXCEPT ![c].pc = "deleteByUser",
                                    ![c].exp = exp]
    /\ UNCHANGED <<clockVars, dbVars, mwVars, nextTok, emailVars, termsVars,
                   delTimers, histVars>>

\* termsAcceptance.createPending after its timestamp answered, then
\* registerAuthFlowToken up to deleteTokensByUser
TermsTs(c, src) ==
    /\ calls[c].pc = "termsTs"
    /\ LET exp == utcTimestampPlusMinutes(TERMS_PENDING_TTL_MINUTES, src)
           out == Terms_createPending(TmState, calls[c].user,
                                      calls[c].details, calls[c].newTok, exp)
       IN /\ TmSet(out.st)
          /\ calls' = [calls EXCEPT ![c].pc = "deleteByUser",
                                    ![c].exp = exp]
    /\ UNCHANGED <<clockVars, dbVars, mwVars, nextTok, phoneVars, emailVars,
                   delTimers, histVars>>

\* persistTokenRecord: deleteTokensByUser answered
DeleteByUser(c) ==
    /\ calls[c].pc = "deleteByUser"
    /\ tokens' = {row \in tokens : row.user_id # calls[c].user}
    /\ calls' = [calls EXCEPT ![c].pc = "insert"]
    /\ UNCHANGED <<clockVars, details, mwVars, nextTok, phoneVars,
                   emailVars, termsVars, delTimers, histVars>>

\* persistTokenRecord: deleteTokenByHash(consumeTokenHash) answered
DeleteByHash(c) ==
    /\ calls[c].pc = "deleteByHash"
    /\ tokens' = tokens \ RowsByHash(hashToken(calls[c].tok))
    /\ calls' = [calls EXCEPT ![c].pc = "insert"]
    /\ UNCHANGED <<clockVars, details, mwVars, nextTok, phoneVars,
                   emailVars, termsVars, delTimers, histVars>>

\* an insert whose error is not looked at: the token is returned anyway
insertResult_ErrorIgnored(call, ok) ==
    Finish([call EXCEPT !.stored = IF ok THEN "ok" ELSE "failed"],
           call.ret, call.newTok)

\* persistTokenRecord after the insert answered: the caller returns the
\* token, or the InternalServerErrorException propagates
insertResult(call, ok) ==
    IF ok THEN Finish([call EXCEPT !.stored = "ok"], call.ret, call.newTok)
    ELSE Finish([call EXCEPT !.stored = "failed"], "error", NoToken)

\* persistTokenRecord: the insert answered, with or without an error; a
\* refresh then calls scheduleTokenDeletion for the row it was presented
Insert(c, ok) ==
    /\ calls[c].pc = "insert"
    /\ IF ok
       THEN /\ tokens' = tokens \cup {AuthRow(calls[c])}
            /\ calls' = [calls EXCEPT ![c] = insertResult(@, ok)]
            /\ delTimers' =
                  IF calls[c].op = "refresh" /\ calls[c].ret = "session"
                  THEN delTimers \cup
                          {[id |-> calls[c].rowId,
                            due |-> now + REFRESH_GRACE_MS]}
                  ELSE delTimers
       ELSE /\ calls' = [calls EXCEPT ![c] = insertResult(@, ok)]
            /\ UNCHANGED <<tokens, delTimers>>
    /\ UNCHANGED <<clockVars, details, mwVars, nextTok, phoneVars,
                   emailVars, termsVars, histVars>>

\* requestEmailRegistration and requestPasswordReset: the pending token of
\* the email store is returned as it is
RequestEmail(c, op, email, src, code) ==
    /\ ~Running(c)
    /\ nextTok < MaxAuthTok
    /\ LET tok == nextTok + 1
           exp == utcTimestampPlusMinutes(EMAIL_PENDING_TTL_MINUTES, src)
           out == IF op = "emailRequest"
                  THEN Email_request(EmState, email, tok, exp, code)
                  ELSE Email_requestReset(EmState, email, tok, exp, code)
           call == [IdleCall EXCEPT !.op = op, !.user = email]
       IN /\ EmSet(out.st)
          /\ IF out.result = "ok"
             THEN /\ nextTok' = tok
                  /\ calls' = [calls EXCEPT
                                  ![c] = Finish(call, "emailPending", tok)]
             ELSE /\ calls' = [calls EXCEPT
                                  ![c] = Finish(call, "error", NoToken)]
                  /\ UNCHANGED nextTok
    /\ UNCHANGED <<clockVars, dbVars, mwVars, phoneVars, termsVars,
                   delTimers, histVars>>

\* verifyPhoneCode: phoneVerification.verifyCode up to saveDetails
StartVerifyPhone(c, tok, code, machineCode) ==
    /\ ~Running(c)
    /\ LET out == Phone_verifyCode(PhState, tok, code, machineCode)
           h == hashToken(tok)
           call == [IdleCall EXCEPT !.op = "verifyPhone", !.tok = tok]
       IN IF out.result = "match"
          THEN /\ calls' = [calls EXCEPT
                              ![c] = [call EXCEPT
                                        !.pc = "saveDetails",
                                        !.user = phPending[h].profileId,
                                        !.phone = phPending[h].phone]]
               /\ UNCHANGED phoneVars
          ELSE /\ calls' = [calls EXCEPT
                              ![c] = Finish(call, "error", NoToken)]
               /\ PhSet(out.st)
    /\ UNCHANGED <<clockVars, dbVars, mwVars, nextTok, emailVars, termsVars,
                   delTimers, histVars>>

\* verifyCode after saveDetails answered, up to revokeToken
SaveDetails(c, machineCode) ==
    /\ calls[c].pc = "saveDetails"
    /\ details' = saveDetails(details, calls[c].user, calls[c].phone)
    /\ PhSet(Phone_verified(PhState, calls[c].tok, machineCode))
    /\ calls' = [calls EXCEPT ![c].pc = "revoke",
                              ![c].details = details'[calls[c].user]]
    /\ UNCHANGED <<clockVars, tokens, mwVars, nextTok, emailVars, termsVars,
                   delTimers, histVars>>

\* acceptTerms: termsAcceptance.acceptTerms up to markTermsAccepted
StartAcceptTerms(c, tok) ==
    /\ ~Running(c)
    /\ LET out == Terms_acceptTerms(TmState, tok)
           h == hashToken(tok)
           call == [IdleCall EXCEPT !.op = "acceptTerms", !.tok = tok]
       IN IF out.result = "ok"
          THEN /\ calls' = [calls EXCEPT
                              ![c] = [call EXCEPT
                                        !.pc = "markTerms",
                                        !.user = tmPending[h].profileId,
                                        !.details = tmPending[h].details]]
               /\ UNCHANGED termsVars
          ELSE /\ calls' = [calls EXCEPT
                              ![c] = Finish(call, "error", NoToken)]
               /\ TmSet(out.st)
    /\ UNCHANGED <<clockVars, dbVars, mwVars, nextTok, phoneVars, emailVars,
                   delTimers, histVars>>

\* acceptTerms after markTermsAccepted answered, up to revokeToken
MarkTerms(c) ==
    /\ calls[c].pc = "markTerms"
    /\ details' = markTermsAccepted(details, calls[c].user, calls[c].details)
    /\ TmSet(Terms_clearRecord(TmState, hashToken(calls[c].tok)))
    /\ calls' = [calls EXCEPT ![c].pc = "revoke",
                              ![c].details = details'[calls[c].user]]
    /\ UNCHANGED <<clockVars, tokens, mwVars, nextTok, phoneVars, emailVars,
                   delTimers, histVars>>

\* revokeToken answered, then issueSession
Revoke(c, src) ==
    /\ calls[c].pc = "revoke"
    /\ tokens' = tokens \ RowsByHash(hashToken(calls[c].tok))
    /\ Advance(c, issueSession(calls[c], calls[c].details, nextTok + 1,
                               src))
    /\ UNCHANGED <<clockVars, details, mwVars, phoneVars, emailVars,
                   termsVars, delTimers, focus>>

\* refreshSessionToken: the select on `tokens` is awaited
StartRefresh(c, tok) ==
    /\ ~Running(c)
    /\ calls' = [calls EXCEPT ![c] = [IdleCall EXCEPT !.op = "refresh",
                                                      !.pc = "selectToken",
                                                      !.tok = tok]]
    /\ UNCHANGED <<clockVars, dbVars, mwVars, nextTok, phoneVars, emailVars,
                   termsVars, delTimers, histVars>>

\* refreshSessionToken: the row answered; missing, revoked or expired ends
\* the call
RefreshSelect(c) ==
    /\ calls[c].pc = "selectToken"
    /\ LET rows == RowsByHash(hashToken(calls[c].tok)) IN
       IF rows = {}
       THEN calls' = [calls EXCEPT ![c] = Finish(@, "error", NoToken)]
       ELSE LET current == CHOOSE row \in rows : TRUE IN
            IF current.revoked_at # None \/ current.expires_at <= now
            THEN calls' = [calls EXCEPT ![c] = Finish(@, "error", NoToken)]
            ELSE calls' = [calls EXCEPT
                             ![c].pc = "refreshDetails",
                             ![c].user = current.user_id,
                             ![c].rowId = current.id,
                             ![c].fromPerm = current.permission]
    /\ UNCHANGED <<clockVars, dbVars, mwVars, nextTok, phoneVars, emailVars,
                   termsVars, delTimers, histVars>>

RefreshDetails(c, src) ==
    /\ calls[c].pc = "refreshDetails"
    /\ Advance(c, refreshTail(calls[c], getDetails(details, calls[c].user),
                              nextTok + 1, src))
    /\ UNCHANGED <<clockVars, dbVars, mwVars, phoneVars, emailVars,
                   termsVars, delTimers, focus>>

\* the timer of scheduleTokenDeletion: deletes the row by id
DelTimerFires ==
    /\ \E tm \in delTimers :
          /\ tm.due <= now
          /\ tokens' = {row \in tokens : row.id # tm.id}
          /\ delTimers' = delTimers \ {tm}
    /\ UNCHANGED <<clockVars, details, mwVars, nextTok, phoneVars,
                   emailVars, termsVars, calls, histVars>>

----------------------------------------------------------------------------
(* Clock *)

Tick(d, max) ==
    /\ ticks < max
    /\ now' = now + d
    /\ ticks' = ticks + 1
    /\ UNCHANGED <<dbVars, mwVars, nextTok, phoneVars, emailVars,
                   termsVars, authVars, histVars>>

----------------------------------------------------------------------------
(* Specification of the middleware with the duplicate-request detector *)

\* the table when exploration starts: a session and a flow token issued at
\* StartNow, and a session issued 61 minutes earlier that nothing deleted
MwInitTokens ==
    {TokenRow(1, 1, "u1", TRUE, StartNow + SESSION_TTL_MINUTES * MsPerMinute),
     TokenRow(2, 2, "u2", FALSE,
              StartNow + AUTH_FLOW_TTL_MINUTES * MsPerMinute),
     TokenRow(3, 3, "u3", TRUE,
              (StartNow - 61 * MsPerMinute)
                 + SESSION_TTL_MINUTES * MsPerMinute)}

InitCommon ==
    /\ now = StartNow
    /\ ticks = 0
    /\ pendingRequests = [s \in Sigs |-> NoTs]
    /\ recentRequests = [s \in Sigs |-> NoTs]
    /\ reqs = [r \in ReqIds |-> IdleReq]
    /\ lastRelease = [s \in Sigs |-> NoTs]
    /\ nextTok = 0
    /\ phPending = <<>>
    /\ phIndex = <<>>
    /\ codeCache = <<>>
    /\ emPending = <<>>
    /\ emailIndex = <<>>
    /\ registerIndex = <<>>
    /\ resetIndex = <<>>
    /\ tmPending = <<>>
    /\ tmIndex = <<>>
    /\ calls = [c \in CallIds |-> IdleCall]
    /\ delTimers = {}
    /\ hist = <<>>

InitMw ==
    /\ InitCommon
    /\ focus = "middleware"
    /\ tokens = MwInitTokens
    /\ details = [u \in Users |-> NoDetails]

\* the clock advances by three sweep periods at a time
MwTick == Tick(3 * cleanupFrequency, MaxMwTicks)

MwEnterAny ==
    \E r \in ReqIds, i \in MwInputs :
        /\ \A q \in ReqIds : q < r => reqs[q].st # "idle"
        /\ MwEnter(r, i[1], i[2], i[3])

MwLookupAny ==
    \E r \in ReqIds, db \in {"data", "error", "throws"} : MwLookup(r, db)

RespondAny == \E r \in ReqIds : Respond(r)

NextMw ==
    \/ MwEnterAny
    \/ MwLookupAny
    \/ RespondAny
    \/ cleanupOldRequests
    \/ MwTick

SpecMw == InitMw /\ [][NextMw]_vars

\* the middleware with responses that call a wrapped method again
ReleaseAgainAny == \E r \in ReqIds : ReleaseAgain(r)

NextRelease ==
    \/ MwEnterAny
    \/ MwLookupAny
    \/ RespondAny
    \/ ReleaseAgainAny
    \/ cleanupOldRequests
    \/ MwTick

SpecRelease == InitMw /\ [][NextRelease]_vars

\* the middleware under a sweep timer that keeps firing and a clock that
\* keeps advancing: requests are handled during the first MaxActiveTicks
\* clock advances, and the clock then runs on for longer than the retention
\* window
MaxSweepTicks == MaxActiveTicks + 4

SweepTick == Tick(3 * cleanupFrequency, MaxSweepTicks)

NextSweep ==
    \/ ticks <= MaxActiveTicks /\ MwEnterAny
    \/ ticks <= MaxActiveTicks /\ MwLookupAny
    \/ ticks <= MaxActiveTicks /\ RespondAny
    \/ cleanupOldRequests
    \/ SweepTick

SpecSweep ==
    /\ InitMw
    /\ [][NextSweep]_vars
    /\ WF_<<pendingRequests, recentRequests>>(cleanupOldRequests)
    /\ WF_now(SweepTick)

----------------------------------------------------------------------------
(* Specification of the three pending-verification stores.  The services   *)
(* are separate objects with maps of their own; a behaviour exercises one  *)
(* of them, named by focus.                                                *)

InitStores ==
    /\ InitCommon
    /\ focus \in {"phone", "email", "terms"}
    /\ tokens = {}
    /\ details = [u \in Users |-> NoDetails]

\* the clock advances by a code lifetime (5 minutes) at a time
StoreTick == Tick(PHONE_CODE_TTL_MINUTES * MsPerMinute, MaxStoreTicks)

PhCreatePendingAny ==
    /\ focus = "phone"
    /\ \E u \in Profiles, src \in TimeSources : PhCreatePending(u, src)

PhRequestCodeAny ==
    /\ focus = "phone"
    /\ \E tok \in Issued, p \in Phones, m \in Machines, c \in Codes,
          src \in TimeSources : PhRequestCode(tok, p, m, c, src)

PhVerifyCodeAny ==
    /\ focus = "phone"
    /\ \E tok \in Issued, c \in Codes, m \in Machines :
          PhVerifyCode(tok, c, m)

EmRequestAny ==
    /\ focus = "email"
    /\ \E e \in Emails, src \in TimeSources, c \in Codes :
          EmRequest(e, src, c)

EmRequestResetAny ==
    /\ focus = "email"
    /\ \E e \in Emails, src \in TimeSources, c \in Codes :
          EmRequestReset(e, src, c)

EmResendCodeAny ==
    /\ focus = "email"
    /\ \E tok \in Issued, c \in Codes : EmResendCode(tok, c)

EmVerifyCodeAny ==
    /\ focus = "email"
    /\ \E tok \in Issued, c \in Codes, n \in Codes, src \in TimeSources :
          EmVerifyCode(tok, c, n, src)

EmVerifyResetCodeAny ==
    /\ focus = "email"
    /\ \E tok \in Issued, c \in Codes, n \in Codes, src \in TimeSources :
          EmVerifyResetCode(tok, c, n, src)

EmConsumeRegisterTokenAny ==
    /\ focus = "email"
    /\ \E tok \in Issued : EmConsumeRegisterToken(tok)

EmConsumeResetTokenAny ==
    /\ focus = "email"
    /\ \E tok \in Issued : EmConsumeResetToken(tok)

\* the details a caller of createPending has read: with or without a phone
TermsCallerDetails ==
    {[phone |-> "p1", acceptedTerms |-> FALSE, exists |-> TRUE], NoDetails}

TmCreatePendingAny ==
    /\ focus = "terms"
    /\ \E u \in Profiles, d \in TermsCallerDetails, src \in TimeSources :
          TmCreatePending(u, d, src)

TmAcceptTermsAny ==
    /\ focus = "terms"
    /\ \E tok \in Issued : TmAcceptTerms(tok)

NextStores ==
    \/ PhCreatePendingAny
    \/ PhRequestCodeAny
    \/ PhVerifyCodeAny
    \/ PhRecordTimer
    \/ PhCacheTimer
    \/ EmRequestAny
    \/ EmRequestResetAny
    \/ EmResendCodeAny
    \/ EmVerifyCodeAny
    \/ EmVerifyResetCodeAny
    \/ EmConsumeRegisterTokenAny
    \/ EmConsumeResetTokenAny
    \/ EmRecordTimer
    \/ EmCodeTimer
    \/ TmCreatePendingAny
    \/ TmAcceptTermsAny
    \/ TmTimer
    \/ StoreTick

SpecStores == InitStores /\ [][NextStores]_vars

\* the phone store taken alone, with verifyCode calls that may come from a
\* machine that never asked for a code
InitPhone ==
    /\ InitCommon
    /\ focus = "phone"
    /\ tokens = {}
    /\ details = [u \in Users |-> NoDetails]

PhVerifyCodeFromAny ==
    \E tok \in Issued, c \in Codes, m \in VerifyMachines :
        PhVerifyCode(tok, c, m)

NextPhone ==
    \/ nextTok < MaxPhoneTok /\ PhCreatePendingAny
    \/ PhRequestCodeAny
    \/ PhVerifyCodeFromAny
    \/ PhRecordTimer
    \/ PhCacheTimer
    \/ StoreTick

SpecPhone == InitPhone /\ [][NextPhone]_vars

\* the phone store with the pending flows of two profiles whose clients
\* send the same machine code
PhCreatePendingFor ==
    \E u \in Users, src \in TimeSources : PhCreatePending(u, src)

NextTwoProfiles ==
    \/ nextTok < MaxPhoneTok /\ PhCreatePendingFor
    \/ \E tok \in Issued, src \in TimeSources :
          PhRequestCode(tok, "p1", "m1", "c1", src)
    \/ \E tok \in Issued : PhVerifyCode(tok, "c1", "m1")
    \/ PhRecordTimer
    \/ PhCacheTimer
    \/ StoreTick

SpecTwoProfiles == InitPhone /\ [][NextTwoProfiles]_vars

----------------------------------------------------------------------------
(* Specification of the creation calls of the three stores, step by step:  *)
(* a call draws its token, awaits the time source, then stores its record  *)

InitCreate ==
    /\ InitCommon
    /\ focus = "create"
    /\ tokens = {}
    /\ details = [u \in Users |-> NoDetails]

\* the call up to the await on utcTimestampPlusMinutes
CreateBegin(c, op, subject) ==
    /\ ~Running(c)
    /\ nextTok < MaxTok
    /\ LET before == IF op \in EmailKinds
                     THEN Email_clearExisting(EmState, subject, op)
                     ELSE [result |-> "ok", st |-> EmState]
       IN /\ EmSet(before.st)
          /\ IF before.result = "ok"
             THEN /\ calls' = [calls EXCEPT ![c] =
                                 [IdleCall EXCEPT !.op = op,
                                                  !.pc = "timestamp",
                                                  !.user = subject,
                                                  !.newTok = nextTok + 1]]
                  /\ nextTok' = nextTok + 1
             ELSE /\ calls' = [calls EXCEPT ![c] =
                                 Finish([IdleCall EXCEPT !.op = op,
                                                         !.user = subject],
                                        "error", NoToken)]
                  /\ UNCHANGED nextTok
    /\ UNCHANGED <<clockVars, dbVars, mwVars, phoneVars, termsVars,
                   delTimers, histVars>>

\* the time source answered: the record is stored
CreateEnd(c, src, code) ==
    /\ calls[c].pc = "timestamp"
    /\ LET op == calls[c].op
           subject == calls[c].user
           tok == calls[c].newTok
       IN
       /\ IF op \in EmailKinds
          THEN EmSet(Email_storeRecord(
                        EmState, subject, tok,
                        utcTimestampPlusMinutes(EMAIL_PENDING_TTL_MINUTES,
                                                src),
                        code))
          ELSE UNCHANGED emailVars
       /\ IF op = "phoneCreate"
          THEN PhSet(Phone_createPending(
                        PhState, subject, tok,
                        utcTimestampPlusMinutes(PHONE_PENDING_TTL_MINUTES,
                                                src)))
          ELSE UNCHANGED phoneVars
       /\ IF op = "termsCreate"
          THEN TmSet(Terms_createPending(
                        TmState, subject,
                        [phone |-> "p1", acceptedTerms |-> FALSE,
                         exists |-> TRUE],
                        tok,
                        utcTimestampPlusMinutes(TERMS_PENDING_TTL_MINUTES,
                                                src)).st)
          ELSE UNCHANGED termsVars
       /\ calls' = [calls EXCEPT ![c] = Finish(calls[c], "ok", tok)]
    /\ UNCHANGED <<clockVars, dbVars, mwVars, nextTok, delTimers, histVars>>

NextCreate ==
    \/ \E c \in CallIds :
          \/ \E op \in EmailKinds, subject \in Emails :
                CreateBegin(c, op, subject)
          \/ \E op \in {"phoneCreate", "termsCreate"},
                subject \in Profiles :
                CreateBegin(c, op, subject)
    \/ \E c \in CallIds, src \in TimeSources : CreateEnd(c, src, "c1")
    \/ PhRecordTimer
    \/ EmRecordTimer
    \/ EmCodeTimer
    \/ TmTimer
    \/ StoreTick

SpecCreate == InitCreate /\ [][NextCreate]_vars

----------------------------------------------------------------------------
(* Specification of the session issuer with the phone and terms stores *)

\* the profile when exploration starts: new, with a verified phone, or with
\* phone and accepted terms
InitProfiles ==
    {NoDetails,
     [phone |-> "p1", acceptedTerms |-> FALSE, exists |-> TRUE],
     [phone |-> "p1", acceptedTerms |-> TRUE, exists |-> TRUE]}

InitAuth ==
    /\ InitCommon
    /\ focus = "auth"
    /\ tokens = {}
    /\ \E d \in InitProfiles :
          details = [u \in Users |-> IF u \in Profiles THEN d ELSE NoDetails]

\* the clock advances by a flow-token lifetime (5 minutes) at a time
AuthTick == Tick(AUTH_FLOW_TTL_MINUTES * MsPerMinute, MaxAuthTicks)

\* a call starts in the lowest slot that is not running
FreeSlot(c) == \A q \in CallIds : q < c => Running(q)

StartLoginAny ==
    \E c \in CallIds, u \in Profiles, path \in LoginPaths :
        FreeSlot(c) /\ StartLogin(c, u, path)

StartVerifyPhoneAny ==
    \E c \in CallIds, tok \in Issued :
        FreeSlot(c) /\ StartVerifyPhone(c, tok, "c1", "m1")

StartAcceptTermsAny ==
    \E c \in CallIds, tok \in Issued :
        FreeSlot(c) /\ StartAcceptTerms(c, tok)

StartRefreshAny ==
    \E c \in CallIds, tok \in Issued : FreeSlot(c) /\ StartRefresh(c, tok)

LoginGetDetailsAny ==
    \E c \in CallIds, src \in TimeSources : LoginGetDetails(c, src)

PhoneTsAny == \E c \in CallIds, src \in TimeSources : PhoneTs(c, src)

TermsTsAny == \E c \in CallIds, src \in TimeSources : TermsTs(c, src)

DeleteByUserAny == \E c \in CallIds : DeleteByUser(c)

DeleteByHashAny == \E c \in CallIds : DeleteByHash(c)

InsertAny == \E c \in CallIds, ok \in BOOLEAN : Insert(c, ok)

SaveDetailsAny == \E c \in CallIds : SaveDetails(c, "m1")

MarkTermsAny == \E c \in CallIds : MarkTerms(c)

RevokeAny == \E c \in CallIds, src \in TimeSources : Revoke(c, src)

RefreshSelectAny == \E c \in CallIds : RefreshSelect(c)

RefreshDetailsAny ==
    \E c \in CallIds, src \in TimeSources : RefreshDetails(c, src)

\* requestPhoneVerification, from one machine
RequestPhoneCodeAny ==
    \E tok \in Issued, src \in TimeSources :
        /\ PhRequestCode(tok, "p1", "m1", "c1", src)

NextAuth ==
    \/ StartLoginAny
    \/ StartVerifyPhoneAny
    \/ StartAcceptTermsAny
    \/ StartRefreshAny
    \/ LoginGetDetailsAny
    \/ PhoneTsAny
    \/ TermsTsAny
    \/ DeleteByUserAny
    \/ DeleteByHashAny
    \/ InsertAny
    \/ SaveDetailsAny
    \/ MarkTermsAny
    \/ RevokeAny
    \/ RefreshSelectAny
    \/ RefreshDetailsAny
    \/ RequestPhoneCodeAny
    \/ \E c \in CallIds, op \in EmailKinds, src \in TimeSources :
          FreeSlot(c) /\ RequestEmail(c, op, "e1", src, "c1")
    \/ \E c \in CallIds, u \in Profiles, provider \in ExternalProviders :
          FreeSlot(c) /\ StartExternalLogin(c, u, provider)
    \/ EmCodeTimer
    \/ DelTimerFires
    \/ PhRecordTimer
    \/ PhCacheTimer
    \/ TmTimer
    \/ AuthTick

SpecAuth == InitAuth /\ [][NextAuth]_vars

----------------------------------------------------------------------------
(* Claims about the middleware and the duplicate-request detector *)

\* C1: SessionMiddleware.use never calls next() for a request whose token
\* row has an expiresAt in the past (or is revoked); such a request gets 401.
C1_ExpiredNeverAuthenticates ==
    \A r \in ReqIds :
        reqs[r].nextCalled =>
            /\ ~reqs[r].expiredAtLookup
            /\ reqs[r].session.revoked_at = None

\* C7 (as claimed): a guarded request is never admitted while another
\* request with the same fingerprint is in flight, however old that one is.
C7_InFlightAlwaysBlocks ==
    \A r \in ReqIds : reqs[r].guarded => reqs[r].inflightAge = None

\* C7 (amended): a guarded request is never admitted while another request
\* with the same fingerprint is in flight and was registered at most maxAge
\* (30 s) ago.
C7_YoungInFlightBlocks ==
    \A r \in ReqIds : reqs[r].guarded => reqs[r].inflightAge # "young"

C7_Witness ==
    \E r \in ReqIds :
        /\ reqs[r].status = 429
        /\ reqs[r].inflightAge = "young"
        /\ reqs[r].sinceRelease = None

\* C8: a request arriving less than 45 s after the last release of its
\* fingerprint is rejected as duplicate; one arriving 45 s or more after it,
\* with no identical request in flight, is admitted, swept or not.
C8_RetentionWindow ==
    \A r \in ReqIds :
        /\ reqs[r].sinceRelease = "within" => reqs[r].status = 429
        /\ (reqs[r].sinceRelease = "elapsed" /\ reqs[r].inflightAge = None)
              => reqs[r].guarded

C8_Witness ==
    \E r \in ReqIds :
        /\ reqs[r].sinceRelease = "elapsed"
        /\ reqs[r].guarded
        /\ reqs[r].st = "done"

----------------------------------------------------------------------------
(* Claims about the pending-verification stores *)

\* C4: in the phone and email stores, the 5th consecutive verifyCode call
\* with a wrong code on a live code returns the 'maximum attempts exceeded'
\* error and destroys the record, and every later call presenting that
\* pending token fails with the invalid-token error.
C4_FifthWrongCodeDestroys ==
    \A t \in DOMAIN hist :
        hist[t].streak >= MAX_VERIFICATION_ATTEMPTS =>
            /\ hist[t].fifth = "maxAttempts"
            /\ ~Has(phPending, hashToken(t))
            /\ ~Has(emPending, hashToken(t))
            /\ hist[t].after \subseteq {"invalidToken"}

C4_Witness ==
    \E t \in DOMAIN hist :
        /\ hist[t].kind = "phone"
        /\ hist[t].streak >= MAX_VERIFICATION_ATTEMPTS
        /\ hist[t].fifth = "maxAttempts"
        /\ hist[t].after = {"invalidToken"}

C4_WitnessEmail ==
    \E t \in DOMAIN hist :
        /\ hist[t].kind \in EmailKinds
        /\ hist[t].streak >= MAX_VERIFICATION_ATTEMPTS
        /\ hist[t].fifth = "maxAttempts"
        /\ hist[t].after = {"invalidToken"}

\* C5: after a second creation for the same subject (phone createPending,
\* terms createPending, email request and requestReset), the first record
\* is no longer in its store, the subject index does not point to it, and
\* every operation presenting the first token fails as invalid.
C5_SecondCreationSupersedes ==
    \A t \in DOMAIN hist :
        hist[t].superseded =>
            /\ ~Has(phPending, hashToken(t))
            /\ ~Has(emPending, hashToken(t))
            /\ ~Has(tmPending, hashToken(t))
            /\ \A s \in DOMAIN phIndex : phIndex[s] # hashToken(t)
            /\ \A s \in DOMAIN emailIndex : emailIndex[s] # hashToken(t)
            /\ \A s \in DOMAIN tmIndex : tmIndex[s] # hashToken(t)
            /\ hist[t].after \subseteq {"invalidToken"}

C5_Witness ==
    \E t \in DOMAIN hist :
        /\ hist[t].kind = "terms"
        /\ hist[t].superseded
        /\ hist[t].after = {"invalidToken"}
        /\ \E u \in DOMAIN hist :
              /\ u > t
              /\ hist[u].kind = "terms"
              /\ Has(tmPending, hashToken(u))

C5_WitnessPhone ==
    \E t \in DOMAIN hist :
        /\ hist[t].kind = "phone"
        /\ hist[t].superseded
        /\ hist[t].after = {"invalidToken"}

C5_WitnessEmail ==
    \E t \in DOMAIN hist :
        /\ hist[t].kind \in EmailKinds
        /\ hist[t].superseded
        /\ hist[t].after = {"invalidToken"}

\* C6: a register or reset token is consumed at most once, and once it was
\* consumed the parent record is gone, the email index does not refer to the
\* parent any more, the consumed token's own entry has left the register
\* index and the reset index, and the parent pending token and the derived
\* token both fail as invalid.
C6_ConsumeRemovesRecordAndIndexes ==
    \A d \in DOMAIN hist :
        (hist[d].kind \in {"register", "reset"} /\ hist[d].consumed >= 1) =>
            LET p == hashToken(hist[d].parent) IN
            /\ hist[d].consumed = 1
            /\ ~Has(emPending, p)
            /\ \A e \in DOMAIN emailIndex : emailIndex[e] # p
            /\ ~Has(registerIndex, hashToken(d))
            /\ ~Has(resetIndex, hashToken(d))
            /\ hist[d].after \subseteq {"invalidToken"}
            /\ hist[hist[d].parent].after \subseteq {"invalidToken"}

\* C6, the part that does not depend on the reset index: a derived token is
\* consumed at most once, the consume removes the parent record and its
\* email index entry, no register index entry refers to the parent, and both
\* tokens fail as invalid afterwards.
C6_SingleUse ==
    \A d \in DOMAIN hist :
        (hist[d].kind \in {"register", "reset"} /\ hist[d].consumed >= 1) =>
            LET p == hashToken(hist[d].parent) IN
            /\ hist[d].consumed = 1
            /\ ~Has(emPending, p)
            /\ \A e \in DOMAIN emailIndex : emailIndex[e] # p
            /\ \A r \in DOMAIN registerIndex : registerIndex[r] # p
            /\ hist[d].after \subseteq {"invalidToken"}
            /\ hist[hist[d].parent].after \subseteq {"invalidToken"}


----------------------------------------------------------------------------
(* Claims about the session issuer *)

\* C2: no permission=true record is ever held for a profile with no phone
\* on file, and every call made for such a profile (a login, a phone
\* verification, a terms acceptance) ends with requiresPhone=true and a
\* restricted pending token, or with an error, however often it is repeated.
C2_NoPhoneNeverFullSession ==
    /\ \A row \in tokens :
          row.permission => ~NoPhone(details[row.user_id])
    /\ \A c \in CallIds :
          (/\ calls[c].pc = "done"
           /\ calls[c].user \in DOMAIN details
           /\ calls[c].op \in {"login", "verifyPhone", "acceptTerms"}
           /\ NoPhone(details[calls[c].user]))
          => \/ calls[c].result.kind = "error"
             \/ /\ calls[c].result.kind = "requiresPhone"
                /\ \A row \in RowsByHash(hashToken(calls[c].result.token)) :
                      ~row.permission

C2_Witness ==
    \E c, q \in CallIds :
        /\ c # q
        /\ calls[c].pc = "done" /\ calls[q].pc = "done"
        /\ calls[c].op = "login" /\ calls[q].op = "login"
        /\ calls[c].user = calls[q].user
        /\ NoPhone(details[calls[c].user])
        /\ calls[c].result.kind = "requiresPhone"
        /\ calls[q].result.kind = "requiresPhone"
        /\ calls[c].result.token < calls[q].result.token
        /\ \E row \in RowsByHash(hashToken(calls[q].result.token)) :
              ~row.permission

\* C3: every permission=true record was inserted by an operation whose
\* profile details had a phone and acceptedTerms=true; an operation whose
\* details have a phone but no accepted terms ends with
\* requiresTermsAcceptance=true and a permission=false token, or an error.
C3_FullSessionNeedsAcceptedTerms ==
    /\ \A row \in tokens :
          row.permission =>
              /\ ~NoPhone(row.basis)
              /\ row.basis.acceptedTerms
    /\ \A c \in CallIds :
          (/\ calls[c].pc = "done"
           /\ ~NoPhone(calls[c].details)
           /\ ~calls[c].details.acceptedTerms)
          => \/ calls[c].result.kind = "error"
             \/ /\ calls[c].result.kind = "requiresTerms"
                /\ \A row \in RowsByHash(hashToken(calls[c].result.token)) :
                      ~row.permission

C3_Witness ==
    /\ \E c \in CallIds :
          /\ calls[c].pc = "done"
          /\ calls[c].result.kind = "requiresTerms"
          /\ ~calls[c].details.acceptedTerms
          /\ \E row \in RowsByHash(hashToken(calls[c].result.token)) :
                ~row.permission
    /\ \E c \in CallIds :
          /\ calls[c].pc = "done"
          /\ calls[c].result.kind = "session"
          /\ \E row \in RowsByHash(hashToken(calls[c].result.token)) :
                row.permission

\* C9: while the deletion scheduled by a refresh has not fired and its
\* grace window (60 s) has not passed, the record of the old token is still
\* in the tokens table.
C9_OldTokenValidDuringGrace ==
    \A tm \in delTimers :
        now < tm.due => \E row \in tokens : row.id = tm.id

\* C10: refreshSessionToken inserts a permission=true record only when the
\* record of the presented token is a full session (permission=true).
C10_RefreshOnlyFullSessions ==
    \A row \in tokens :
        (row.by = "refresh" /\ row.permission) => row.fromPerm

----------------------------------------------------------------------------
(* Claims about the permission gate of the middleware *)

\* C11: a request whose token record has permission=false and whose path
\* does not start with /auth/email, /auth/phone or /auth/terms is answered
\* 403 and next() is never called for it (req.session is assigned in the
\* step that calls next()); next() is called for a permission=false record
\* only on an auth-flow path.
C11_RestrictedTokenForbidden ==
    \A r \in ReqIds :
        LET p == reqs[r].path
            authFlow == /\ Len(p) >= 2
                        /\ p[1] = "auth"
                        /\ p[2] \in {"email", "phone", "terms"}
        IN
        /\ \A row \in reqs[r].found :
              (~row.permission /\ ~authFlow)
                 => /\ reqs[r].status = 403
                    /\ ~reqs[r].nextCalled
        /\ (reqs[r].nextCalled /\ ~reqs[r].session.permission) => authFlow

C11_Witness ==
    /\ \E r \in ReqIds :
          /\ reqs[r].st = "done"
          /\ reqs[r].path = <<"favorites">>
          /\ \E row \in reqs[r].found : ~row.permission
          /\ reqs[r].status = 403
    /\ \E r \in ReqIds :
          /\ reqs[r].nextCalled
          /\ ~reqs[r].session.permission
          /\ reqs[r].path = <<"auth", "phone", "verify-code">>

----------------------------------------------------------------------------
(* Claims about code expiry in the pending-verification stores *)

\* C12: in the email store, every verifyCode or verifyResetCode call made
\* with a live pending token after the expiry of the current code returns
\* the 'expired, new code sent' error and leaves a fresh code stored in the
\* record, whether or not the code-expiry timer has fired.
C12_VerifyAfterExpiryRegenerates ==
    [][\A tok \in 1..MaxTok, code \in Codes, newCode \in Codes,
          src \in TimeSources :
          LET h == hashToken(tok)
              regenerated == /\ Has(emPending', h)
                             /\ emPending'[h].codeHash = hashToken(newCode)
                             /\ emPending'[h].lastCodeSentAt = now
          IN /\ (/\ EmailCodeExpired(tok, TRUE)
                 /\ EmVerifyCode(tok, code, newCode, src)) => regenerated
             /\ (/\ EmailCodeExpired(tok, FALSE)
                 /\ EmVerifyResetCode(tok, code, newCode, src))
                   => regenerated]_vars

\* C13: code expiry invalidates only the code: a timer or a verifyCode call
\* never removes a phone or email pending record whose code has expired
\* while the pending token's own expiresAt is still in the future.
C13_CodeExpiryKeepsRecord ==
    [][/\ (PhRecordTimer \/ PhVerifyCodeAny) =>
            \A h \in DOMAIN phPending :
               (/\ phPending[h].codeExpiresAt # NoTs
                /\ isExpired(phPending[h].codeExpiresAt)
                /\ ~isExpired(phPending[h].tokenExpiresAt))
               => h \in DOMAIN phPending'
       /\ (EmCodeTimer \/ EmRecordTimer \/ EmVerifyCodeAny) =>
            \A h \in DOMAIN emPending :
               (/\ emPending[h].codeExpiresAt # NoTs
                /\ isExpired(emPending[h].codeExpiresAt)
                /\ ~isExpired(emPending[h].tokenExpiresAt))
               => h \in DOMAIN emPending']_vars

----------------------------------------------------------------------------
(* Claims about the release closure of the duplicate-request detector *)

\* C14: for every guarded request the middleware registered, the release
\* closure has been invoked exactly once when the request has ended,
\* whether it ended by a handler's response, a 401/403 rejection or an
\* exception in the middleware.
C14_ReleasedExactlyOnce ==
    \A r \in ReqIds :
        (reqs[r].st = "done" /\ reqs[r].guarded) => reqs[r].releases = 1

\* C15: invoking the release closure again after it has run leaves the
\* pending table and the recently-completed table unchanged.
C15_ReleaseIdempotent ==
    [][ReleaseAgainAny => UNCHANGED <<pendingRequests, recentRequests>>]_vars

----------------------------------------------------------------------------
(* Claims about concurrent calls *)

\* C16: in every reachable state the tokens table holds at most one
\* permission=false record per user.
C16_OneFlowTokenPerUser ==
    \A u \in Users :
        Cardinality({row \in tokens :
                        row.user_id = u /\ ~row.permission}) <= 1

\* C17: in every reachable state of each pending-verification store every
\* record of the token map is the one its subject's index entry points to,
\* so at most one record per subject is resolvable by its token.
C17_OneRecordPerSubject ==
    /\ \A h \in DOMAIN phPending :
          /\ Has(phIndex, phPending[h].profileId)
          /\ phIndex[phPending[h].profileId] = h
    /\ \A h \in DOMAIN emPending :
          /\ Has(emailIndex, emPending[h].email)
          /\ emailIndex[emPending[h].email] = h
    /\ \A h \in DOMAIN tmPending :
          /\ Has(tmIndex, tmPending[h].profileId)
          /\ tmIndex[tmPending[h].profileId] = h

----------------------------------------------------------------------------
(* Claims about the session issuer's results *)

\* C18: scenario A: a verifyPhoneCode call whose code verification
\* succeeded (correct code, requesting machine) for the pending token of a
\* login on a new profile ends with a session: the result carries a session
\* token whose record has permission=true.
C18_PhoneVerificationIssuesSession ==
    \A c \in CallIds :
        (/\ calls[c].pc = "done"
         /\ calls[c].op = "verifyPhone"
         /\ calls[c].result.kind # "error")
        => /\ calls[c].result.kind = "session"
           /\ \E row \in RowsByHash(hashToken(calls[c].result.token)) :
                 row.permission

\* C19 (as claimed): no call returns a token unless the insert of that
\* token's hash into the tokens table succeeded.
C19_TokenOnlyAfterInsert ==
    \A c \in CallIds :
        (calls[c].pc = "done" /\ calls[c].result.token # NoToken)
            => calls[c].stored = "ok"

\* C19 (amended): a login, verifyPhoneCode, acceptTerms or refresh call
\* returns a token only after the insert of its hash succeeded, and a call
\* whose insert failed ends in an error and returns no token.
C19_RegisteredTokenOnlyAfterInsert ==
    \A c \in CallIds :
        calls[c].pc = "done" =>
            /\ (/\ calls[c].op \in {"login", "verifyPhone", "acceptTerms",
                                     "refresh"}
                /\ calls[c].result.token # NoToken)
                  => calls[c].stored = "ok"
            /\ calls[c].stored = "failed"
                  => /\ calls[c].result.kind = "error"
                     /\ calls[c].result.token = NoToken

C19_Witness ==
    /\ \E c \in CallIds :
          /\ calls[c].pc = "done"
          /\ calls[c].stored = "failed"
          /\ calls[c].result.kind = "error"
    /\ \E c \in CallIds :
          /\ calls[c].pc = "done"
          /\ calls[c].op = "login"
          /\ calls[c].result.token # NoToken
          /\ calls[c].stored = "ok"

\* C20: no component of the stored state holds a clear verification code
\* or a clear token: the pending records of the phone and email stores are
\* keyed by token hashes and carry a code hash (or none), and an entry of
\* the per-machine code cache carries no clear code.
C20_OnlyHashesStored ==
    LET TokenHashes == {hashToken(t) : t \in 1..(MaxTok + 1)}
        CodeHashes == {NoHash} \cup {hashToken(c) : c \in Codes}
    IN /\ \A h \in DOMAIN phPending :
             h \in TokenHashes /\ phPending[h].codeHash \in CodeHashes
       /\ \A h \in DOMAIN emPending :
             h \in TokenHashes /\ emPending[h].codeHash \in CodeHashes
       /\ \A m \in DOMAIN codeCache :
             /\ codeCache[m].tokenHash \in TokenHashes
             /\ codeCache[m].code \notin Codes

----------------------------------------------------------------------------
(* Claims about lazy expiry, exemptions and the time sources *)

\* C21: in every reachable state, whether or not a timer has fired, each
\* operation of the phone, email and terms stores that is presented a
\* pending token whose record's expiry is at or before the current time,
\* or a register or reset token whose own expiry is at or before the
\* current time, returns an expired or invalid error, and the access of an
\* expired pending token leaves no record behind.
C21_LazyExpiry ==
    LET Refused == {"expiredToken", "invalidToken"} IN
    /\ \A tok \in Issued :
          LET h == hashToken(tok) IN
          /\ (Has(phPending, h) /\ phPending[h].tokenExpiresAt <= now) =>
                \A code \in Codes, m \in VerifyMachines :
                   LET v == Phone_verifyCode(PhState, tok, code, m) IN
                   /\ v.result \in Refused
                   /\ ~Has(v.st.pending, h)
                   /\ \A phone \in Phones, src \in TimeSources :
                         LET q == Phone_requestCode(PhState, tok, phone, m,
                                                    code, src)
                         IN q.result \in Refused /\ ~Has(q.st.pending, h)
          /\ (Has(emPending, h) /\ emPending[h].tokenExpiresAt <= now) =>
                \A code \in Codes, newCode \in Codes :
                   LET r == Email_resendCode(EmState, tok, code)
                       v == Email_verifyCode(EmState, tok, code, newCode,
                                             nextTok + 1, now)
                       w == Email_verifyResetCode(EmState, tok, code,
                                                  newCode, nextTok + 1, now)
                   IN /\ {r.result, v.result, w.result} \subseteq Refused
                      /\ ~Has(r.st.pending, h)
                      /\ ~Has(v.st.pending, h)
                      /\ ~Has(w.st.pending, h)
          /\ (Has(tmPending, h) /\ tmPending[h].expiresAt <= now) =>
                LET a == Terms_acceptTerms(TmState, tok) IN
                a.result \in Refused /\ ~Has(a.st.pending, h)
    /\ \A dtok \in DOMAIN hist :
          (hist[dtok].expiresAt # NoTs /\ hist[dtok].expiresAt <= now) =>
             /\ hist[dtok].kind = "register" =>
                   Email_consumeRegisterToken(EmState, dtok).result
                      \in Refused
             /\ hist[dtok].kind = "reset" =>
                   Email_consumeResetToken(EmState, dtok).result
                      \in Refused

C23_OffsetInMinutes ==
    \A m \in {AUTH_FLOW_TTL_MINUTES, PHONE_PENDING_TTL_MINUTES,
              SESSION_TTL_MINUTES},
       src \in TimeSources :
        utcTimestampPlusMinutes(m, src) = now + m * MsPerMinute

\* C24: with a sweep that keeps firing, neither table keeps an entry
\* forever: every entry of the pending table is eventually removed, by its
\* release or by the sweep, and every entry of the recently-completed
\* table is eventually removed once no release stamps it again.
C24_NoEntryKeptForever ==
    \A s \in Sigs :
        /\ []<>(pendingRequests[s] = NoTs)
        /\ []<>(recentRequests[s] = NoTs)

\* a request still in flight whose pending entry the sweep removed, and a
\* released fingerprint whose recently-completed entry the sweep removed
C24_Witness ==
    /\ \E r \in ReqIds :
          /\ InFlight(r)
          /\ pendingRequests[reqs[r].sig] = NoTs
    /\ \E s \in Sigs :
          /\ lastRelease[s] # NoTs
          /\ recentRequests[s] = NoTs

----------------------------------------------------------------------------
(* Claims about the rejections of the phone store *)

----------------------------------------------------------------------------
(* Claims about the session issuer's error paths *)

\* C26: an externalProviderLogin call for a profile bound to another
\* provider ends in a conflict error, an error of another kind than the
\* validation (BadRequestException) and authentication
\* (UnauthorizedException) errors, and changes neither the tokens table,
\* the profile details nor the pending stores.
C26_ProviderConflictIsDistinctError ==
    [][\A c \in CallIds, u \in Profiles, provider \in ExternalProviders :
          (ProfileProvider[u] # provider /\ StartExternalLogin(c, u, provider))
             => /\ calls'[c].pc = "done"
                /\ calls'[c].result.kind = "error"
                /\ calls'[c].exception \notin
                      {None, "BadRequestException", "UnauthorizedException"}
                /\ UNCHANGED <<tokens, details, phPending, phIndex,
                               codeCache, emPending, emailIndex,
                               registerIndex, resetIndex, tmPending,
                               tmIndex>>]_vars

----------------------------------------------------------------------------
(* Claims about concurrent requests and calls *)

----------------------------------------------------------------------------
(* Claims about wrong codes and expiry instants *)

\* C28: in every reachable state, a verifyCode call (phone store, from the machine that asked for
\* the code; email store, verifyCode and verifyResetCode) with a wrong code
\* on a live pending token with a live code, made while the record's
\* attempts is below 4, returns the invalid-code error, adds exactly 1 to
\* attempts and changes nothing else in the record, the subject index, the
\* derived-token indexes and the code cache.
C28_WrongCodeCountsOneAttempt ==
    \A tok \in Issued, code \in Codes :
        LET h == hashToken(tok) IN
        /\ \A m \in Machines :
              (/\ PhoneWrongOnLive(tok, code, m)
               /\ phPending[h].attempts < MAX_VERIFICATION_ATTEMPTS - 1)
                 => LET out == Phone_verifyCode(PhState, tok, code, m) IN
                    /\ out.result = "invalidCode"
                    /\ out.st = [PhState EXCEPT
                                    !.pending[h].attempts = @ + 1]
        /\ \A newCode \in Codes, src \in TimeSources :
              LET exp == utcTimestampPlusMinutes(EMAIL_PENDING_TTL_MINUTES,
                                                 src)
                  counted == [EmState EXCEPT !.pending[h].attempts = @ + 1]
              IN
              /\ (/\ EmailWrongOnLive(tok, code, TRUE)
                  /\ emPending[h].attempts
                        < Email_MAX_VERIFICATION_ATTEMPTS - 1)
                    => LET out == Email_verifyCode(EmState, tok, code,
                                                   newCode, nextTok + 1,
                                                   exp)
                       IN out.result = "invalidCode" /\ out.st = counted
              /\ (/\ EmailWrongOnLive(tok, code, FALSE)
                  /\ emPending[h].attempts
                        < Email_MAX_VERIFICATION_ATTEMPTS - 1)
                    => LET out == Email_verifyResetCode(EmState, tok, code,
                                                        newCode,
                                                        nextTok + 1, exp)
                       IN out.result = "invalidCode" /\ out.st = counted

\* three wrong codes in a row were counted on a live email record whose
\* code is still the one that was sent
C28_Witness ==
    \E t \in DOMAIN hist :
        LET h == hashToken(t) IN
        /\ hist[t].kind \in EmailKinds
        /\ hist[t].streak = 3
        /\ Has(emPending, h)
        /\ emPending[h].attempts = 3
        /\ emPending[h].codeHash # NoHash
        /\ ~isExpired(emPending[h].codeExpiresAt)
        /\ emailIndex[emPending[h].email] = h

C28_WitnessPhone ==
    \E t \in DOMAIN hist :
        LET h == hashToken(t) IN
        /\ hist[t].kind = "phone"
        /\ hist[t].streak = 3
        /\ Has(phPending, h)
        /\ phPending[h].attempts = 3
        /\ phPending[h].codeHash # NoHash
        /\ \E m \in DOMAIN codeCache : codeCache[m].tokenHash = h

\* C29: in every reachable state the expiry checks of the pending stores
\* treat a pending token, a derived token or a code as expired exactly when
\* now > expiresAt, so that a token or code presented at the instant
\* now = expiresAt is still accepted.
C29_ExpiredOnlyAfterInstant ==
    \A tok \in Issued :
        LET h == hashToken(tok) IN
        /\ Has(phPending, h) =>
              /\ (Phone_getRecordByPendingToken(PhState, tok)
                     = "expiredToken")
                    <=> now > phPending[h].tokenExpiresAt
              /\ phPending[h].codeExpiresAt # NoTs =>
                    (isExpired(phPending[h].codeExpiresAt)
                        <=> now > phPending[h].codeExpiresAt)
        /\ Has(emPending, h) =>
              /\ (Email_getRecordByToken(EmState, tok).result
                     = "expiredToken")
                    <=> now > emPending[h].tokenExpiresAt
              /\ emPending[h].codeExpiresAt # NoTs =>
                    (isExpired(emPending[h].codeExpiresAt)
                        <=> now > emPending[h].codeExpiresAt)
        /\ Has(tmPending, h) =>
              ((Terms_acceptTerms(TmState, tok).result = "expiredToken")
                  <=> now > tmPending[h].expiresAt)

\* C30: of two verifyPhoneCode calls presenting the same pending token
\* with the right code, or two acceptTerms calls presenting the same terms
\* token, at most one gets the verified result of its store (the call is
\* then past saveDetails or markTermsAccepted and goes on to issue a
\* session), however their steps interleave.
C30_OneSuccessPerPendingToken ==
    \A c \in CallIds, q \in CallIds :
        (/\ c # q
         /\ calls[c].op \in {"verifyPhone", "acceptTerms"}
         /\ calls[q].op = calls[c].op
         /\ calls[c].tok # NoToken
         /\ calls[q].tok = calls[c].tok)
           => ~(/\ calls[c].pc \notin {"idle", "saveDetails", "markTerms",
                                       "done"}
                /\ calls[q].pc \notin {"idle", "saveDetails", "markTerms",
                                       "done"})

\* C31: a release closure removes only the entry of its own registration.
\* When request r releases for the first time after its entry was swept,
\* and an identical request q registered since is still in flight, the
\* pending entry of q is still there after the step.
C31_ReleaseRemovesOwnEntryOnly ==
    [][\A r \in ReqIds, q \in ReqIds :
          (/\ r # q
           /\ InFlight(r)
           /\ reqs'[r].releases > 0
           /\ InFlight(q)
           /\ reqs[q].st # "done"
           /\ reqs[q].sig = reqs[r].sig
           /\ reqs[q].regAt > reqs[r].regAt + maxAge
           /\ pendingRequests[reqs[q].sig] = reqs[q].regAt)
             => pendingRequests'[reqs[q].sig] = reqs[q].regAt]_vars

\* C32: a register or reset token returned with expiry E stays consumable
\* at every time before E, as long as it is the only token derived from
\* its record, it was not consumed, no later request was made for its
\* email and its record was not destroyed by wrong codes: no timer of the
\* parent record removes it earlier.
C32_DerivedTokenLivesUntilExpiry ==
    \A d \in DOMAIN hist :
        (/\ focus = "email"
         /\ hist[d].kind \in {"register", "reset"}
         /\ now < hist[d].expiresAt
         /\ hist[d].consumed = 0
         /\ \A o \in DOMAIN hist : hist[o].parent = hist[d].parent => o = d
         /\ ~Dead(hist[hist[d].parent]))
           => IF hist[d].kind = "register"
              THEN Email_consumeRegisterToken(EmState, d).result = "consumed"
              ELSE Email_consumeResetToken(EmState, d).result = "consumed"

\* C33: for each email pending record at most one derived token is
\* consumable at any time: of two reset tokens derived from the same
\* pending token, the earlier one no longer passes consumeResetToken.
C33_OneConsumableResetToken ==
    \A d \in DOMAIN hist, e \in DOMAIN hist :
        (/\ focus = "email"
         /\ d < e
         /\ hist[d].kind = "reset"
         /\ hist[e].kind = "reset"
         /\ hist[d].parent = hist[e].parent
         /\ Email_consumeResetToken(EmState, e).result = "consumed")
           => Email_consumeResetToken(EmState, d).result # "consumed"

\* C34: the registration and password-reset flows of the email store are
\* separate: every reset token was derived from a pending token issued by
\* requestReset, and every register token from one issued by request.
C34_FlowsAreSeparate ==
    \A d \in DOMAIN hist :
        /\ hist[d].kind = "reset" =>
               hist[hist[d].parent].kind = "emailReset"
        /\ hist[d].kind = "register" =>
               hist[hist[d].parent].kind = "emailRequest"

\* C35: a failed issuance leaves the existing session records in place:
\* when the insert of a refresh fails, with no other call in progress, the
\* row of the token that was presented to the refresh is still in the
\* table, so that token still authenticates.
C35_FailedInsertKeepsSessions ==
    [][\A c \in CallIds :
          (/\ calls[c].op = "refresh"
           /\ calls[c].pc = "insert"
           /\ calls'[c].stored = "failed"
           /\ \A q \in CallIds \ {c} : ~Running(q))
             => \E row \in tokens' :
                   row.token_hash = hashToken(calls[c].tok)]_vars

\* C36: no issued code is compared with more than 5 guesses: after every
\* step the attempt counter of each stored phone and email record is
\* between 0 and 4, and a counter that was above 0 is back at 0 only after
\* a step that stored the hash of a newly generated code with a new expiry.
C36_AttemptsBoundedPerCode ==
    [][/\ \A h \in DOMAIN phPending' :
             /\ phPending'[h].attempts \in 0..(MAX_VERIFICATION_ATTEMPTS - 1)
             /\ (/\ h \in DOMAIN phPending
                 /\ phPending[h].attempts > 0
                 /\ phPending'[h].attempts = 0)
                   => /\ phPending'[h].codeHash # NoHash
                      /\ \E src \in TimeSources :
                            phPending'[h].codeExpiresAt =
                               utcTimestampPlusMinutes(
                                  PHONE_CODE_TTL_MINUTES, src)
       /\ \A h \in DOMAIN emPending' :
             /\ emPending'[h].attempts
                   \in 0..(Email_MAX_VERIFICATION_ATTEMPTS - 1)
             /\ (/\ h \in DOMAIN emPending
                 /\ emPending[h].attempts > 0
                 /\ emPending'[h].attempts = 0)
                   => /\ emPending'[h].codeHash # NoHash
                      /\ emPending'[h].lastCodeSentAt = now
                      /\ emPending'[h].codeExpiresAt =
                            now + EMAIL_CODE_TTL_MINUTES * MsPerMinute]_vars

\* C36 witness: an email record whose code took four wrong guesses and for
\* which a resend would store a new code and put the counter back to 0
C36_Witness ==
    \E tok \in Issued :
        LET h == hashToken(tok) IN
        /\ Has(emPending, h)
        /\ emPending[h].attempts = Email_MAX_VERIFICATION_ATTEMPTS - 1
        /\ LET out == Email_resendCode(EmState, tok, "c2") IN
           /\ out.result = "ok"
           /\ out.st.pending[h].attempts = 0
           /\ out.st.pending[h].codeHash = hashToken("c2")

\* C36 witness for the phone store: a record at four wrong guesses
C36_WitnessPhone ==
    \E h \in DOMAIN phPending :
        /\ phPending[h].attempts = MAX_VERIFICATION_ATTEMPTS - 1
        /\ phPending[h].codeHash # NoHash

\* C37: phone pending flows of different profiles do not interfere: when
\* verifyCode for a pending token, with its correct code and the machine
\* that asked for the code, would succeed, it still would after any
\* requestCode or verifyCode call made with the pending token of another
\* profile, whatever machine code that call uses.
C37_ProfilesDoNotInterfere ==
    [][\A a \in Issued, b \in Issued, m \in VerifyMachines, c \in Codes :
          (/\ Has(phPending, hashToken(a))
           /\ Has(phPending, hashToken(b))
           /\ phPending[hashToken(a)].profileId
                 # phPending[hashToken(b)].profileId
           /\ Phone_verifyCode(PhState, a, c, m).result = "match"
           /\ \/ \E p \in Phones, mb \in VerifyMachines, cb \in Codes,
                    src \in TimeSources : PhRequestCode(b, p, mb, cb, src)
              \/ \E mb \in VerifyMachines, cb \in Codes :
                    PhVerifyCode(b, cb, mb))
            => Phone_verifyCode(PhState, a, c, m)'.result = "match"]_vars

\* the record of an email is verified and holds a register token that has
\* not expired (a consumed register token leaves no record)
VerifiedWithLiveRegisterToken(email) ==
    /\ Has(emailIndex, email)
    /\ Has(emPending, emailIndex[email])
    /\ emPending[emailIndex[email]].status = "verified"
    /\ emPending[emailIndex[email]].registerTokenHash # NoHash
    /\ Has(registerIndex, emPending[emailIndex[email]].registerTokenHash)
    /\ emPending[emailIndex[email]].registerTokenExpiresAt # NoTs
    /\ now < emPending[emailIndex[email]].registerTokenExpiresAt

\* C38: request(email) called while the record of the email is verified
\* and holds an unexpired, unconsumed register token fails with an error
\* and leaves the store as it was: record, register token and indexes are
\* kept, and no pending token or code is created.
C38_RequestRefusedWhileVerified ==
    \A email \in Emails :
        (focus = "email" /\ VerifiedWithLiveRegisterToken(email)) =>
            \A src \in TimeSources, code \in Codes :
                LET out == Email_request(
                              EmState, email, nextTok + 1,
                              utcTimestampPlusMinutes(
                                 EMAIL_PENDING_TTL_MINUTES, src),
                              code)
                IN /\ out.result = "alreadyVerified"
                   /\ out.st = EmState

\* C38 witness: a verified record with a live register token, at a time
\* after its pending token was issued
C38_Witness ==
    \E email \in Emails :
        /\ focus = "email"
        /\ VerifiedWithLiveRegisterToken(email)
        /\ now > StartNow

============================================================================
